---- MODULE Spec2Model ----
(***************************************************************************)
(* Model of the enum exporter of the localization visualizer               *)
(* (src/services/enum_exporter.py): the identifier normalizers, the        *)
(* format-parameter extractors, the Swift / Kotlin section emitters, the   *)
(* testing helpers with their sampler of 300 test cases and the enum       *)
(* generators; and of its collaborators: the paginated fetch of the        *)
(* GraphQL client (src/services/graph_service.py), the JSON exporter       *)
(* (src/services/json_exporter.py) and the ZIP downloads with their cache  *)
(* (src/controllers/export_controller.py).                                 *)
(*                                                                         *)
(* A Python str is a sequence of characters; a character is a one-element  *)
(* string, and a character outside printable ASCII is written by its code  *)
(* point ("U+00E9"; the backtick is "U+0060").  The emitted source text   *)
(* is kept as the sequence of its lines, each line a record of the pieces  *)
(* the f-string interpolates.                                              *)
(***************************************************************************)
EXTENDS Integers, Sequences, FiniteSets, TLC

VARIABLES pc, text, name, value, parameters, section, entries, enum_code, test_cases,
          sections, all_entries, all_test_cases, cases_by_section, helper_code,
          testing_code, swift_code, kotlin_code, stored, skip, total,
          locale, actual_section_key, localizations, filename,
          cache, clock, request, response, failed, raised

vars == <<pc, text, name, value, parameters, section, entries, enum_code, test_cases,
          sections, all_entries, all_test_cases, cases_by_section, helper_code,
          testing_code, swift_code, kotlin_code, stored, skip, total,
          locale, actual_section_key, localizations, filename,
          cache, clock, request, response, failed, raised>>

\* what the testing helpers read and build
helper_vars == <<sections, all_entries, all_test_cases, cases_by_section, helper_code,
                 testing_code>>

\* what a call of a normalizer, an extractor or a section emitter reads and builds
call_vars == <<text, name, value, parameters, section, entries, enum_code, test_cases>>

\* the texts of generate_swift_enum and generate_kotlin_enum
enum_vars == <<swift_code, kotlin_code>>

\* the pagination loop of the content client: the number of entries the
\* server holds, the offset of the next page and the total last reported
paging_vars == <<stored, skip, total>>

\* the arguments and the result of generate_json
json_vars == <<locale, actual_section_key, localizations, filename>>

\* the cache directory, the time, and a request of the export controller
\* with its response and the upstream calls that failed while it was served
cache_vars == <<cache, clock, request, response, failed>>

\* what the collaborators of the enum exporter hold
site_vars == <<paging_vars, json_vars, cache_vars>>

\* what the callers of the normalizers, extractors, emitters and helpers hold
service_vars == <<enum_vars, site_vars>>

-----------------------------------------------------------------------------
(* Bounds of the checked input space.                                      *)
MaxKeyLen == 4
MaxValLen == 5
MaxEntries == 2
MaxWideSections == 11
MaxWideCases == 2
MaxStored == 2001
MaxClock == 3601

-----------------------------------------------------------------------------
(* Characters.                                                             *)

Ascii ==
    <<" ", "!", "\"", "#", "$", "%", "&", "'", "(", ")", "*", "+", ",", "-", ".", "/",
      "0", "1", "2", "3", "4", "5", "6", "7", "8", "9", ":", ";", "<", "=", ">", "?",
      "@", "A", "B", "C", "D", "E", "F", "G", "H", "I", "J", "K", "L", "M", "N", "O",
      "P", "Q", "R", "S", "T", "U", "V", "W", "X", "Y", "Z", "[", "\\", "]", "^", "_",
      "U+0060", "a", "b", "c", "d", "e", "f", "g", "h", "i", "j", "k", "l", "m", "n", "o",
      "p", "q", "r", "s", "t", "u", "v", "w", "x", "y", "z", "{", "|", "}", "~">>

\* ord(c): printable ASCII by the table, the control and non-ASCII characters
\* the inputs use by name.
AsciiOrd ==
    [c \in {Ascii[i] : i \in 1..Len(Ascii)} |-> 31 + CHOOSE i \in 1..Len(Ascii) : Ascii[i] = c]

Ord(c) ==
    IF c \in DOMAIN AsciiOrd THEN AsciiOrd[c]
    ELSE CASE c = "\t" -> 9
           [] c = "\n" -> 10
           [] c = "U+00A0" -> 160
           [] c = "U+00E9" -> 233
           [] OTHER -> 65533

Chr(n) == Ascii[n - 31]

Backtick == "U+0060"

IsUpper(c) == Ord(c) >= 65 /\ Ord(c) <= 90      \* [A-Z]
IsLower(c) == Ord(c) >= 97 /\ Ord(c) <= 122     \* [a-z]
IsDigit(c) == Ord(c) >= 48 /\ Ord(c) <= 57      \* [0-9]; str.isdigit() on what the regex keeps
IsAlnum(c) == IsUpper(c) \/ IsLower(c) \/ IsDigit(c)
\* \s of a str pattern: Unicode whitespace
IsSpace(c) == c \in {" ", "\t", "\n", "U+00A0"}

LowerChar(c) == IF IsUpper(c) THEN Chr(Ord(c) + 32) ELSE c
UpperChar(c) == IF IsLower(c) THEN Chr(Ord(c) - 32) ELSE c

\* str.lower(), str.upper(), str.capitalize()
Lower(s) == [i \in 1..Len(s) |-> LowerChar(s[i])]
Upper(s) == [i \in 1..Len(s) |-> UpperChar(s[i])]
Capitalize(s) == [i \in 1..Len(s) |-> IF i = 1 THEN UpperChar(s[i]) ELSE LowerChar(s[i])]

\* ''.join(pieces)
RECURSIVE Flatten(_)
Flatten(pieces) ==
    IF pieces = <<>> THEN <<>> ELSE Head(pieces) \o Flatten(Tail(pieces))

\* re.split(sep+, s): the pieces between maximal separator runs, the empty
\* pieces before a leading and after a trailing run included; sep[i] says
\* that s[i] is a separator.
RECURSIVE SplitFrom(_, _, _, _, _)
SplitFrom(s, sep, i, cur, acc) ==
    IF i > Len(s) THEN Append(acc, cur)
    ELSE IF sep[i]
         THEN IF i > 1 /\ sep[i - 1]
              THEN SplitFrom(s, sep, i + 1, cur, acc)
              ELSE SplitFrom(s, sep, i + 1, <<>>, Append(acc, cur))
         ELSE SplitFrom(s, sep, i + 1, Append(cur, s[i]), acc)

ReSplit(s, sep) == SplitFrom(s, sep, 1, <<>>, <<>>)

\* str.split(): whitespace runs, no empty pieces
SplitWhitespace(s) ==
    SelectSeq(ReSplit(s, [i \in 1..Len(s) |-> IsSpace(s[i])]), LAMBDA w : w # <<>>)

\* str.split(c): every occurrence of c separates, empty pieces kept
RECURSIVE SplitCharFrom(_, _, _, _, _)
SplitCharFrom(s, i, cur, acc, c) ==
    IF i > Len(s) THEN Append(acc, cur)
    ELSE IF s[i] = c
         THEN SplitCharFrom(s, i + 1, <<>>, Append(acc, cur), c)
         ELSE SplitCharFrom(s, i + 1, Append(cur, s[i]), acc, c)

SplitChar(s, c) == SplitCharFrom(s, 1, <<>>, <<>>, c)

\* sep.join(parts)
RECURSIVE Join(_, _)
Join(parts, sep) ==
    IF parts = <<>> THEN <<>>
    ELSE IF Len(parts) = 1 THEN parts[1]
    ELSE parts[1] \o sep \o Join(Tail(parts), sep)

\* re.sub of a zero-width pattern by an underscore: at holds the positions i
\* such that the pattern matches between s[i] and s[i+1].
InsertUnderscores(s, at) ==
    Flatten([i \in 1..Len(s) |-> IF i \in at THEN <<s[i], "_">> ELSE <<s[i]>>])

\* (?<=[a-z])(?=[A-Z])
LowerUpperBoundary(s) ==
    {i \in 1..Len(s) : i < Len(s) /\ IsLower(s[i]) /\ IsUpper(s[i + 1])}
\* (?<=[A-Z])(?=[A-Z][a-z])
AcronymBoundary(s) ==
    {i \in 1..Len(s) : i + 1 < Len(s) /\ IsUpper(s[i]) /\ IsUpper(s[i + 1]) /\ IsLower(s[i + 2])}

-----------------------------------------------------------------------------
(* The identifier normalizers.                                             *)

to_upper_camel_case(t) ==
    IF t = <<>> THEN <<"U", "n", "k", "n", "o", "w", "n">>
    ELSE LET cleaned == [i \in 1..Len(t) |->
                            IF IsAlnum(t[i]) \/ IsSpace(t[i]) THEN t[i] ELSE " "]
             words == SplitWhitespace(cleaned)
         IN  Join([i \in 1..Len(words) |-> Capitalize(words[i])], <<>>)

IsKeySeparator(c) == IsSpace(c) \/ c \in {"-", "_", "."}

\* re.sub(r'[^a-zA-Z0-9\s\-_.]', '', text)
StripSpecials(t) == SelectSeq(t, LAMBDA c : IsAlnum(c) \/ IsKeySeparator(c))

\* re.split(r'[\s\-_.]+', text)
SplitKey(t) == ReSplit(t, [i \in 1..Len(t) |-> IsKeySeparator(t[i])])

RECURSIVE JoinCapitalized(_)
JoinCapitalized(parts) ==
    IF parts = <<>> THEN <<>>
    ELSE (IF Head(parts) # <<>> THEN Capitalize(Head(parts)) ELSE <<>>)
         \o JoinCapitalized(Tail(parts))

\* to_camel_case_key without the removal of special characters
to_camel_case_key_unstripped(t) ==
    IF t = <<>> THEN <<"u", "n", "k", "n", "o", "w", "n">>
    ELSE LET marked1 == InsertUnderscores(t, LowerUpperBoundary(t))
             marked2 == InsertUnderscores(marked1, AcronymBoundary(marked1))
             parts == SplitKey(marked2)
         IN  Lower(parts[1]) \o JoinCapitalized(Tail(parts))

\* to_camel_case_key without the acronym boundary
to_camel_case_key_no_acronym(t) ==
    IF t = <<>> THEN <<"u", "n", "k", "n", "o", "w", "n">>
    ELSE LET stripped == StripSpecials(t)
             marked1 == InsertUnderscores(stripped, LowerUpperBoundary(stripped))
             parts == SplitKey(marked1)
         IN  Lower(parts[1]) \o JoinCapitalized(Tail(parts))

to_camel_case_key(t) ==
    IF t = <<>> THEN <<"u", "n", "k", "n", "o", "w", "n">>
    ELSE LET stripped == StripSpecials(t)
             marked1 == InsertUnderscores(stripped, LowerUpperBoundary(stripped))
             marked2 == InsertUnderscores(marked1, AcronymBoundary(marked1))
             parts == SplitKey(marked2)
         IN  IF parts = <<>> THEN <<"u", "n", "k", "n", "o", "w", "n">>
             ELSE Lower(parts[1]) \o JoinCapitalized(Tail(parts))

swift_keywords ==
    { <<"c", "a", "s", "e">>,
      <<"c", "l", "a", "s", "s">>,
      <<"s", "t", "r", "u", "c", "t">>,
      <<"e", "n", "u", "m">>,
      <<"p", "r", "o", "t", "o", "c", "o", "l">>,
      <<"l", "e", "t">>,
      <<"v", "a", "r">>,
      <<"f", "u", "n", "c">>,
      <<"i", "n">>,
      <<"f", "o", "r">>,
      <<"w", "h", "i", "l", "e">>,
      <<"i", "f">>,
      <<"e", "l", "s", "e">>,
      <<"r", "e", "t", "u", "r", "n">>,
      <<"p", "u", "b", "l", "i", "c">>,
      <<"p", "r", "i", "v", "a", "t", "e">>,
      <<"i", "n", "t", "e", "r", "n", "a", "l">>,
      <<"s", "t", "a", "t", "i", "c">>,
      <<"d", "e", "f", "a", "u", "l", "t">>,
      <<"s", "w", "i", "t", "c", "h">> }

kotlin_keywords ==
    { <<"c", "l", "a", "s", "s">>,
      <<"o", "b", "j", "e", "c", "t">>,
      <<"i", "n", "t", "e", "r", "f", "a", "c", "e">>,
      <<"e", "n", "u", "m">>,
      <<"f", "u", "n">>,
      <<"v", "a", "l">>,
      <<"v", "a", "r">>,
      <<"c", "o", "n", "s", "t">>,
      <<"i", "n">>,
      <<"i", "s">>,
      <<"a", "s">>,
      <<"f", "o", "r">>,
      <<"w", "h", "i", "l", "e">>,
      <<"i", "f">>,
      <<"e", "l", "s", "e">>,
      <<"w", "h", "e", "n">>,
      <<"r", "e", "t", "u", "r", "n">>,
      <<"p", "u", "b", "l", "i", "c">>,
      <<"p", "r", "i", "v", "a", "t", "e">>,
      <<"i", "n", "t", "e", "r", "n", "a", "l">>,
      <<"p", "r", "o", "t", "e", "c", "t", "e", "d">>,
      <<"o", "p", "e", "n">>,
      <<"a", "b", "s", "t", "r", "a", "c", "t">>,
      <<"f", "i", "n", "a", "l">>,
      <<"d", "a", "t", "a">>,
      <<"s", "e", "a", "l", "e", "d">>,
      <<"c", "o", "m", "p", "a", "n", "i", "o", "n">>,
      <<"i", "n", "i", "t">>,
      <<"t", "h", "i", "s">>,
      <<"s", "u", "p", "e", "r">>,
      <<"n", "u", "l", "l">>,
      <<"t", "r", "u", "e">>,
      <<"f", "a", "l", "s", "e">>,
      <<"t", "h", "r", "o", "w">>,
      <<"t", "r", "y">>,
      <<"c", "a", "t", "c", "h">>,
      <<"f", "i", "n", "a", "l", "l", "y">> }

\* the key without the text before its first '.'
CleanKeyAfterFirstDot(key) ==
    IF \E i \in 1..Len(key) : key[i] = "."
    THEN LET pieces == SplitChar(key, ".") IN Join(Tail(pieces), <<".">>)
    ELSE key

\* key.split('.')[-1] if '.' in key else key
CleanKey(key) ==
    IF \E i \in 1..Len(key) : key[i] = "."
    THEN LET pieces == SplitChar(key, ".") IN pieces[Len(pieces)]
    ELSE key

\* the name made an identifier by a leading underscore
SwiftNormalizedUnderscore(key) ==
    LET case_name == to_camel_case_key(CleanKey(key))
    IN  IF case_name # <<>> /\ IsDigit(case_name[1])
        THEN <<"_">> \o case_name
        ELSE case_name

\* the name before keyword escaping: to_camel_case_key plus the "key" prefix
SwiftNormalized(key) ==
    LET case_name == to_camel_case_key(CleanKey(key))
    IN  IF case_name # <<>> /\ IsDigit(case_name[1])
        THEN <<"k", "e", "y">> \o case_name
        ELSE case_name

\* generate_case_name returning case_name without the trailing or "unknown"
generate_case_name_no_fallback(key) ==
    LET case_name == SwiftNormalized(key)
    IN  IF case_name \in swift_keywords THEN <<Backtick>> \o case_name \o <<Backtick>>
        ELSE case_name

generate_case_name(key) ==
    LET case_name == SwiftNormalized(key)
    IN  IF case_name \in swift_keywords THEN <<Backtick>> \o case_name \o <<Backtick>>
        ELSE IF case_name # <<>> THEN case_name
        ELSE <<"u", "n", "k", "n", "o", "w", "n">>

\* str.replace(old, new) for one-character old and new
ReplaceChar(s, old, new) == [i \in 1..Len(s) |-> IF s[i] = old THEN new ELSE s[i]]

KotlinNormalized(key) ==
    LET case_name == Upper(ReplaceChar(ReplaceChar(to_camel_case_key(CleanKey(key)),
                                                   "-", "_"), " ", "_"))
    IN  IF case_name # <<>> /\ IsDigit(case_name[1])
        THEN <<"K", "E", "Y", "_">> \o case_name
        ELSE case_name

\* generate_kotlin_case_name testing case_name, not case_name.lower()
generate_kotlin_case_name_exact(key) ==
    LET case_name == KotlinNormalized(key)
    IN  IF case_name \in kotlin_keywords THEN <<Backtick>> \o case_name \o <<Backtick>>
        ELSE IF case_name # <<>> THEN case_name
        ELSE <<"U", "N", "K", "N", "O", "W", "N">>

generate_kotlin_case_name(key) ==
    LET case_name == KotlinNormalized(key)
    IN  IF Lower(case_name) \in kotlin_keywords THEN <<Backtick>> \o case_name \o <<Backtick>>
        ELSE IF case_name # <<>> THEN case_name
        ELSE <<"U", "N", "K", "N", "O", "W", "N">>

-----------------------------------------------------------------------------
(* The format-parameter extractors.                                        *)

StringType == <<"S", "t", "r", "i", "n", "g">>
IntType == <<"I", "n", "t">>
CommaSpace == <<",", " ">>

\* The scan loop skipping two characters at a '%' that starts no marker
RECURSIVE ScanParametersSkipTwo(_, _, _)
ScanParametersSkipTwo(v, i, found) ==
    IF i > Len(v) THEN found
    ELSE IF v[i] = "%" /\ i + 1 <= Len(v)
         THEN IF v[i + 1] = "@" THEN ScanParametersSkipTwo(v, i + 2, Append(found, StringType))
              ELSE IF v[i + 1] = "d" THEN ScanParametersSkipTwo(v, i + 2, Append(found, IntType))
              ELSE ScanParametersSkipTwo(v, i + 2, found)
         ELSE ScanParametersSkipTwo(v, i + 1, found)

\* The scan loop of extract_substitution_parameters: i is the (1-based)
\* position, found the list built so far.
RECURSIVE ScanParameters(_, _, _)
ScanParameters(v, i, found) ==
    IF i > Len(v) THEN found
    ELSE IF v[i] = "%" /\ i + 1 <= Len(v)
         THEN IF v[i + 1] = "@" THEN ScanParameters(v, i + 2, Append(found, StringType))
              ELSE IF v[i + 1] = "d" THEN ScanParameters(v, i + 2, Append(found, IntType))
              ELSE ScanParameters(v, i + 1, found)
         ELSE ScanParameters(v, i + 1, found)

extract_substitution_parameters(v) ==
    IF v = <<>> THEN <<>> ELSE Join(ScanParameters(v, 1, <<>>), CommaSpace)

\* str(n) for n >= 0
RECURSIVE IntToStr(_)
IntToStr(n) ==
    IF n < 10 THEN <<Chr(48 + n)>> ELSE IntToStr(n \div 10) \o <<Chr(48 + (n % 10))>>

\* f'val param{param_index}: {type}'
ConstructorParam(param_index, type) ==
    <<"v", "a", "l", " ", "p", "a", "r", "a", "m">> \o IntToStr(param_index)
        \o <<":", " ">> \o type

\* The Kotlin scan loop skipping two characters at a '%' that starts no marker
RECURSIVE ScanKotlinParametersSkipTwo(_, _, _, _)
ScanKotlinParametersSkipTwo(v, i, param_index, found) ==
    IF i > Len(v) THEN found
    ELSE IF v[i] = "%" /\ i + 1 <= Len(v)
         THEN IF v[i + 1] = "@"
              THEN ScanKotlinParametersSkipTwo(v, i + 2, param_index + 1,
                       [parameters |-> Append(found.parameters,
                                              ConstructorParam(param_index, StringType)),
                        param_types |-> Append(found.param_types, StringType)])
              ELSE IF v[i + 1] = "d"
              THEN ScanKotlinParametersSkipTwo(v, i + 2, param_index + 1,
                       [parameters |-> Append(found.parameters,
                                              ConstructorParam(param_index, IntType)),
                        param_types |-> Append(found.param_types, IntType)])
              ELSE ScanKotlinParametersSkipTwo(v, i + 2, param_index, found)
         ELSE ScanKotlinParametersSkipTwo(v, i + 1, param_index, found)

\* The scan loop of extract_kotlin_parameters: found holds the (parameters,
\* param_types) lists, param_index is Len(found.param_types) + 1.
RECURSIVE ScanKotlinParameters(_, _, _, _)
ScanKotlinParameters(v, i, param_index, found) ==
    IF i > Len(v) THEN found
    ELSE IF v[i] = "%" /\ i + 1 <= Len(v)
         THEN IF v[i + 1] = "@"
              THEN ScanKotlinParameters(v, i + 2, param_index + 1,
                       [parameters |-> Append(found.parameters,
                                              ConstructorParam(param_index, StringType)),
                        param_types |-> Append(found.param_types, StringType)])
              ELSE IF v[i + 1] = "d"
              THEN ScanKotlinParameters(v, i + 2, param_index + 1,
                       [parameters |-> Append(found.parameters,
                                              ConstructorParam(param_index, IntType)),
                        param_types |-> Append(found.param_types, IntType)])
              ELSE ScanKotlinParameters(v, i + 1, param_index, found)
         ELSE ScanKotlinParameters(v, i + 1, param_index, found)

extract_kotlin_parameters(v) ==
    IF v = <<>> THEN [constructor_params |-> <<>>, param_types |-> <<>>]
    ELSE LET found == ScanKotlinParameters(v, 1, 1, [parameters |-> <<>>, param_types |-> <<>>])
         IN  [constructor_params |-> Join(found.parameters, CommaSpace),
              param_types |-> Join(found.param_types, CommaSpace)]

-----------------------------------------------------------------------------
(* The operations of the code that can raise: a subscript s[index] of a    *)
(* str or list of the given size (IndexError unless -size <= index <       *)
(* size; index counts from 0 as in the code) and a modulo by a divisor     *)
(* (ZeroDivisionError when it is 0).  Each function has the set of the     *)
(* operations it performs on an input, in the branches the code takes.     *)

Subscript(size, index) == [op |-> "subscript", size |-> size, index |-> index]
Modulo(divisor) == [op |-> "modulo", size |-> divisor, index |-> 0]

Fails(o) ==
    IF o.op = "modulo" THEN o.size = 0
    ELSE ~(0 - o.size <= o.index /\ o.index < o.size)

\* the exception that leaves a call performing ops; "None" when it returns
Raised(ops) ==
    IF \E o \in ops : o.op = "modulo" /\ Fails(o) THEN "ZeroDivisionError"
    ELSE IF \E o \in ops : o.op = "subscript" /\ Fails(o) THEN "IndexError"
    ELSE "None"

\* parts[0], after the tests of text and of parts
to_camel_case_key_ops(t) ==
    IF t = <<>> THEN {}
    ELSE LET stripped == StripSpecials(t)
             marked1 == InsertUnderscores(stripped, LowerUpperBoundary(stripped))
             marked2 == InsertUnderscores(marked1, AcronymBoundary(marked1))
             parts == SplitKey(marked2)
         IN  IF parts = <<>> THEN {} ELSE {Subscript(Len(parts), 0)}

\* key.split('.')[-1] and case_name[0]
generate_case_name_ops(key) ==
    LET case_name == to_camel_case_key(CleanKey(key))
    IN  (IF \E i \in 1..Len(key) : key[i] = "."
         THEN {Subscript(Len(SplitChar(key, ".")), 0 - 1)} ELSE {})
        \cup to_camel_case_key_ops(CleanKey(key))
        \cup (IF case_name # <<>> THEN {Subscript(Len(case_name), 0)} ELSE {})

\* the same subscripts; replace and upper keep the length of case_name
generate_kotlin_case_name_ops(key) ==
    LET case_name == Upper(ReplaceChar(ReplaceChar(to_camel_case_key(CleanKey(key)),
                                                   "-", "_"), " ", "_"))
    IN  (IF \E i \in 1..Len(key) : key[i] = "."
         THEN {Subscript(Len(SplitChar(key, ".")), 0 - 1)} ELSE {})
        \cup to_camel_case_key_ops(CleanKey(key))
        \cup (IF case_name # <<>> THEN {Subscript(Len(case_name), 0)} ELSE {})

\* The scan loop reading value[i + 1] at every '%', also at the last character
RECURSIVE ScanOpsUnguarded(_, _)
ScanOpsUnguarded(v, i) ==
    IF i > Len(v) THEN {}
    ELSE IF v[i] = "%"
         THEN {Subscript(Len(v), i - 1), Subscript(Len(v), i)}
              \cup ScanOpsUnguarded(v, IF i + 1 <= Len(v) /\ v[i + 1] \in {"@", "d"}
                                       THEN i + 2 ELSE i + 1)
         ELSE {Subscript(Len(v), i - 1)} \cup ScanOpsUnguarded(v, i + 1)

\* The subscripts of the scan loop: value[i] and, when value[i] is '%' and
\* i + 1 < len(value), value[i + 1]; i is the (1-based) position.
RECURSIVE ScanOps(_, _)
ScanOps(v, i) ==
    IF i > Len(v) THEN {}
    ELSE IF v[i] = "%" /\ i + 1 <= Len(v)
         THEN {Subscript(Len(v), i - 1), Subscript(Len(v), i)}
              \cup ScanOps(v, IF v[i + 1] \in {"@", "d"} THEN i + 2 ELSE i + 1)
         ELSE {Subscript(Len(v), i - 1)} \cup ScanOps(v, i + 1)

extract_substitution_parameters_ops(v) == IF v = <<>> THEN {} ELSE ScanOps(v, 1)

extract_kotlin_parameters_ops(v) == IF v = <<>> THEN {} ELSE ScanOps(v, 1)

-----------------------------------------------------------------------------
(* The section emitters.  enum_code is the sequence of the emitted lines:  *)
(* a record per line, kind naming the line and the other fields holding    *)
(* what the f-string interpolates.  An empty parameters field of a "case"  *)
(* line, and wildcards = 0 or is = FALSE of a "key_arm" line, stand for    *)
(* the form without a parenthesised list or without "is".                  *)

\* a < b for str: lexicographic by code point
RECURSIVE StrLess(_, _)
StrLess(a, b) ==
    IF b = <<>> THEN FALSE
    ELSE IF a = <<>> THEN TRUE
    ELSE IF Ord(Head(a)) # Ord(Head(b)) THEN Ord(Head(a)) < Ord(Head(b))
    ELSE StrLess(Tail(a), Tail(b))

\* the insertion placing an entry before the entries of the same key
RECURSIVE InsertByKeyBeforeEqual(_, _)
InsertByKeyBeforeEqual(e, sorted) ==
    IF sorted = <<>> THEN <<e>>
    ELSE IF ~StrLess(Head(sorted).key, e.key) THEN <<e>> \o sorted
    ELSE <<Head(sorted)>> \o InsertByKeyBeforeEqual(e, Tail(sorted))

\* sorted(entries, key=lambda x: x.get('key', '')): stable
RECURSIVE InsertByKey(_, _)
InsertByKey(e, sorted) ==
    IF sorted = <<>> THEN <<e>>
    ELSE IF StrLess(e.key, Head(sorted).key) THEN <<e>> \o sorted
    ELSE <<Head(sorted)>> \o InsertByKey(e, Tail(sorted))

RECURSIVE SortedByKey(_)
SortedByKey(es) ==
    IF es = <<>> THEN <<>>
    ELSE InsertByKey(es[Len(es)], SortedByKey(SubSeq(es, 1, Len(es) - 1)))

\* f'param{i}'
ParamName(i) == <<"p", "a", "r", "a", "m">> \o IntToStr(i)

\* the loop over sorted_entries that fills key_mappings, without the test of key
SwiftKeyMappingsUnfiltered(es) ==
    LET sorted_entries == SortedByKey(es)
    IN  [i \in 1..Len(sorted_entries) |->
            [case_name |-> generate_case_name(sorted_entries[i].key),
             key |-> sorted_entries[i].key,
             parameters |-> extract_substitution_parameters(sorted_entries[i].value)]]

\* the loop over sorted_entries that fills key_mappings (and case_definitions)
SwiftKeyMappings(es) ==
    LET sorted_entries == SelectSeq(SortedByKey(es), LAMBDA e : e.key # <<>>)
    IN  [i \in 1..Len(sorted_entries) |->
            [case_name |-> generate_case_name(sorted_entries[i].key),
             key |-> sorted_entries[i].key,
             parameters |-> extract_substitution_parameters(sorted_entries[i].value)]]

\* the key arm returning the key without its dotted prefix
SwiftKeyArmCleaned(m) ==
    [kind |-> "key_arm", name |-> m.case_name,
     wildcards |-> IF m.parameters # <<>> THEN Len(SplitChar(m.parameters, ",")) ELSE 0,
     returns |-> CleanKey(m.key)]

\* one arm of the key switch
SwiftKeyArm(m) ==
    [kind |-> "key_arm", name |-> m.case_name,
     wildcards |-> IF m.parameters # <<>> THEN Len(SplitChar(m.parameters, ",")) ELSE 0,
     returns |-> m.key]

\* one arm of the parameters switch
SwiftParametersArm(m) ==
    LET param_count == Len(SplitChar(m.parameters, ","))
    IN  [kind |-> "parameters_arm", name |-> m.case_name,
         binds |-> [i \in 1..param_count |-> ParamName(i)],
         returns |-> [i \in 1..param_count |-> ParamName(i)]]

\* the text and the test cases built from key_mappings
SwiftEmitted(section_name, section_key, key_mappings, with_parameters) ==
    LET case_definitions ==
            [i \in 1..Len(key_mappings) |->
                [kind |-> "case", name |-> key_mappings[i].case_name,
                 parameters |-> key_mappings[i].parameters]]
        members ==
            [i \in 1..Len(key_mappings) |-> SwiftKeyArm(key_mappings[i])]
            \o <<[kind |-> "hasParameters",
                  cases |-> [i \in 1..Len(with_parameters) |-> with_parameters[i].case_name]]>>
            \o [i \in 1..Len(with_parameters) |-> SwiftParametersArm(with_parameters[i])]
            \o <<[kind |-> "parameters_nil"]>>
    IN  [enum_code |->
            <<[kind |-> "enum", name |-> section_name],
              [kind |-> "filename", value |-> section_key]>>
            \o case_definitions
            \o (IF key_mappings # <<>> THEN members ELSE <<>>)
            \o <<[kind |-> "end"]>>,
         test_cases |->
            [i \in 1..Len(key_mappings) |->
                [section_name |-> section_name,
                 case_name |-> key_mappings[i].case_name,
                 parameters |-> key_mappings[i].parameters]]]

SwiftWithParameters(key_mappings) == SelectSeq(key_mappings, LAMBDA m : m.parameters # <<>>)

SwiftSectionEnum(sec, es) ==
    SwiftEmitted(to_upper_camel_case(sec.title), sec.key, SwiftKeyMappings(es),
                 SwiftWithParameters(SwiftKeyMappings(es)))

KotlinKeyMappings(es) ==
    LET sorted_entries == SelectSeq(SortedByKey(es), LAMBDA e : e.key # <<>>)
    IN  [i \in 1..Len(sorted_entries) |->
            LET extracted == extract_kotlin_parameters(sorted_entries[i].value)
            IN  [case_name |-> generate_kotlin_case_name(sorted_entries[i].key),
                 key |-> sorted_entries[i].key,
                 constructor_params |-> extracted.constructor_params,
                 param_types |-> extracted.param_types]]

\* len([p for p in constructor_params.split(',') if p.strip()])
KotlinParamCount(constructor_params) ==
    Len(SelectSeq(SplitChar(constructor_params, ","),
                  LAMBDA p : \E i \in 1..Len(p) : ~IsSpace(p[i])))

KotlinKeyArm(m) ==
    [kind |-> "key_arm", name |-> m.case_name, is |-> m.constructor_params # <<>>,
     returns |-> m.key]

KotlinParametersArm(m) ==
    [kind |-> "parameters_arm", name |-> m.case_name,
     returns |-> [i \in 1..KotlinParamCount(m.constructor_params) |-> ParamName(i)]]

KotlinEmitted(section_name, section_key, key_mappings, with_parameters) ==
    LET case_definitions ==
            [i \in 1..Len(key_mappings) |->
                [kind |-> "case", name |-> key_mappings[i].case_name,
                 parameters |-> key_mappings[i].constructor_params]]
        members ==
            <<[kind |-> "filename", value |-> section_key]>>
            \o [i \in 1..Len(key_mappings) |-> KotlinKeyArm(key_mappings[i])]
            \o <<[kind |-> "hasParameters",
                  cases |-> [i \in 1..Len(with_parameters) |-> with_parameters[i].case_name]]>>
            \o [i \in 1..Len(with_parameters) |-> KotlinParametersArm(with_parameters[i])]
            \o <<[kind |-> "parameters_nil"],
                 [kind |-> "companion", name |-> section_name]>>
    IN  [enum_code |->
            <<[kind |-> "enum", name |-> section_name]>>
            \o (IF key_mappings # <<>> THEN case_definitions \o members ELSE <<>>)
            \o <<[kind |-> "end"]>>,
         test_cases |->
            [i \in 1..Len(key_mappings) |->
                [section_name |-> section_name,
                 case_name |-> key_mappings[i].case_name,
                 param_types |-> key_mappings[i].param_types]]]

KotlinWithParameters(key_mappings) ==
    SelectSeq(key_mappings, LAMBDA m : m.constructor_params # <<>>)

KotlinSectionEnum(sec, es) ==
    KotlinEmitted(to_upper_camel_case(sec.title), sec.key, KotlinKeyMappings(es),
                  KotlinWithParameters(KotlinKeyMappings(es)))

-----------------------------------------------------------------------------
(* The test-case sampler.  cases_by_section, a dict in insertion order, is *)
(* the sequence of its items: a record of the key (section_name) and the   *)
(* list stored under it (cases).  helper_code is the sequence of the       *)
(* lines of the returned text, the empty sequence for the empty string.    *)

target_count == 300

\* sub in s
Contains(s, sub) ==
    \E i \in 0..(Len(s) - Len(sub)) : SubSeq(s, i + 1, i + Len(sub)) = sub

\* s.split(', ')
RECURSIVE SplitCommaSpaceFrom(_, _, _, _)
SplitCommaSpaceFrom(s, i, cur, acc) ==
    IF i > Len(s) THEN Append(acc, cur)
    ELSE IF i + 1 <= Len(s) /\ s[i] = "," /\ s[i + 1] = " "
         THEN SplitCommaSpaceFrom(s, i + 2, <<>>, Append(acc, cur))
         ELSE SplitCommaSpaceFrom(s, i + 1, Append(cur, s[i]), acc)

SplitCommaSpace(s) == SplitCommaSpaceFrom(s, 1, <<>>, <<>>)

\* one round of the grouping loop
AddToSection(groups, test_case) ==
    IF \E g \in 1..Len(groups) : groups[g].section_name = test_case.section_name
    THEN [g \in 1..Len(groups) |->
            IF groups[g].section_name = test_case.section_name
            THEN [groups[g] EXCEPT !.cases = Append(@, test_case)]
            ELSE groups[g]]
    ELSE Append(groups, [section_name |-> test_case.section_name, cases |-> <<test_case>>])

\* the grouping loop: cases_by_section after all of all_test_cases (tcs)
RECURSIVE GroupBySection(_)
GroupBySection(tcs) ==
    IF tcs = <<>> THEN <<>>
    ELSE AddToSection(GroupBySection(SubSeq(tcs, 1, Len(tcs) - 1)),
                      tcs[Len(tcs)])

\* a % b as far as the code evaluates it: b = 0 raises, see ConsistentOps
PyMod(a, b) == IF b = 0 THEN 0 ELSE a % b

\* the section position taken round-robin
section_index_round_robin(i, sections_len) == PyMod(i, sections_len)

section_index(i, sections_len) == PyMod(i * 7 + i \div 3, sections_len)

case_index(i, section_cases_len) == PyMod(i * 3 + i \div 5, section_cases_len)

\* test_case of round i (i from 0) of the sampling loop
SampledCase(i, groups) ==
    LET section_cases == groups[section_index(i, Len(groups)) + 1].cases
    IN  section_cases[case_index(i, Len(section_cases)) + 1]

Quote == "\""

\* the argument numbered by i and j as the loops count them, from 0
SampleParamFromZero(i, j, param_type) ==
    IF Contains(param_type, StringType)
    THEN <<Quote, "T", "e", "s", "t">> \o IntToStr(i)
             \o <<"P", "a", "r", "a", "m">> \o IntToStr(j) \o <<Quote>>
    ELSE IF Contains(param_type, IntType)
    THEN IntToStr(i * j)
    ELSE <<Quote, "V", "a", "l", "u", "e">> \o IntToStr(i)
             \o <<"_">> \o IntToStr(j) \o <<Quote>>

\* the argument built for parameter j (from 0) of round i
SampleParam(i, j, param_type) ==
    IF Contains(param_type, StringType)
    THEN <<Quote, "T", "e", "s", "t">> \o IntToStr(i + 1)
             \o <<"P", "a", "r", "a", "m">> \o IntToStr(j + 1) \o <<Quote>>
    ELSE IF Contains(param_type, IntType)
    THEN IntToStr((i + 1) * (j + 1))
    ELSE <<Quote, "V", "a", "l", "u", "e">> \o IntToStr(i + 1)
             \o <<"_">> \o IntToStr(j + 1) \o <<Quote>>

\* sample_params of round i for the parameters string of the case
SampleParams(i, types) ==
    IF types = <<>> THEN <<>>
    ELSE [j \in 1..Len(SplitCommaSpace(types)) |->
            SampleParam(i, j - 1, SplitCommaSpace(types)[j])]

\* the operations of the sampling loop that can raise
ConsistentOps(groups) ==
    IF groups = <<>> THEN {}
    ELSE UNION { LET at == section_index(i, Len(groups))
                     section_cases == groups[at + 1].cases
                 IN  {Modulo(Len(groups)), Subscript(Len(groups), at),
                      Modulo(Len(section_cases)),
                      Subscript(Len(section_cases), case_index(i, Len(section_cases)))}
                 : i \in 0..(target_count - 1) }

HelperHead == <<[kind |-> "mark"], [kind |-> "testCases"]>>
HelperTail ==
    <<[kind |-> "end"], [kind |-> "generateRandomTestCases"],
      [kind |-> "generateConsistentTestCases"], [kind |-> "getAllTestCases"]>>

\* the sampling loop running over the distinct (section, case) pairs only
ConsistentCasesNoRepeat(groups) ==
    LET available == Len(Flatten([g \in 1..Len(groups) |-> groups[g].cases]))
        rounds == IF available < target_count THEN available ELSE target_count
    IN  [n \in 1..rounds |->
            [kind |-> "invocation", qualifier |-> <<>>,
             section_name |-> SampledCase(n - 1, groups).section_name,
             case_name |-> SampledCase(n - 1, groups).case_name,
             params |-> SampleParams(n - 1, SampledCase(n - 1, groups).parameters)]]

\* consistent_cases of the Swift sampler
ConsistentCases(groups) ==
    [n \in 1..target_count |->
        [kind |-> "invocation", qualifier |-> <<>>,
         section_name |-> SampledCase(n - 1, groups).section_name,
         case_name |-> SampledCase(n - 1, groups).case_name,
         params |-> SampleParams(n - 1, SampledCase(n - 1, groups).parameters)]]

\* the text returned for cases_by_section as the grouping loop leaves it
generate_consistent_testing_helper(groups) ==
    IF groups = <<>> THEN <<>>
    ELSE HelperHead \o ConsistentCases(groups) \o HelperTail

Localizations == <<"L", "o", "c", "a", "l", "i", "z", "a", "t", "i", "o", "n", "s">>

\* consistent_cases of the Kotlin sampler
KotlinConsistentCases(groups) ==
    [n \in 1..target_count |->
        [kind |-> "invocation", qualifier |-> Localizations,
         section_name |-> SampledCase(n - 1, groups).section_name,
         case_name |-> SampledCase(n - 1, groups).case_name,
         params |-> SampleParams(n - 1, SampledCase(n - 1, groups).param_types)]]

generate_kotlin_consistent_testing_helper(groups) ==
    IF groups = <<>> THEN <<>>
    ELSE HelperHead \o KotlinConsistentCases(groups) \o HelperTail

-----------------------------------------------------------------------------
(* The testing helpers: the sections in title order, each emitted from its *)
(* entries, the test cases of all of them handed to the sampler.           *)

\* the operations that can raise in the emitter's loop over sorted_entries
SwiftSectionOps(es) ==
    UNION { generate_case_name_ops(es[i].key)
            \cup extract_substitution_parameters_ops(es[i].value)
            : i \in {k \in 1..Len(es) : es[k].key # <<>>} }

KotlinSectionOps(es) ==
    UNION { generate_kotlin_case_name_ops(es[i].key)
            \cup extract_kotlin_parameters_ops(es[i].value)
            : i \in {k \in 1..Len(es) : es[k].key # <<>>} }

\* sorted(sections, key=lambda x: x.get('title', '')): stable
RECURSIVE InsertByTitle(_, _)
InsertByTitle(sec, sorted) ==
    IF sorted = <<>> THEN <<sec>>
    ELSE IF StrLess(sec.title, Head(sorted).title) THEN <<sec>> \o sorted
    ELSE <<Head(sorted)>> \o InsertByTitle(sec, Tail(sorted))

RECURSIVE SortedByTitle(_)
SortedByTitle(secs) ==
    IF secs = <<>> THEN <<>>
    ELSE InsertByTitle(secs[Len(secs)], SortedByTitle(SubSeq(secs, 1, Len(secs) - 1)))

\* None, the value of a field the content store leaves empty: it is no str,
\* as no character is "None"
None == <<"None">>

\* bool(x) of a str or None
Truthy(x) == x # <<>> /\ x # None

\* the grouping that files an entry under whatever its section is
SectionEntriesFiledAlways(es, section_key) ==
    SelectSeq(es, LAMBDA e : e.section = section_key)

\* entries_by_section.get(section_key, []): no entry is filed under '' or None
SectionEntries(es, section_key) ==
    SelectSeq(es, LAMBDA e : Truthy(e.section) /\ e.section = section_key)

\* all_test_cases after the loop over sorted_sections
SwiftAllTestCases(secs, es) ==
    Flatten([i \in 1..Len(secs) |->
        SwiftSectionEnum(SortedByTitle(secs)[i],
                         SectionEntries(es, SortedByTitle(secs)[i].key)).test_cases])

KotlinAllTestCases(secs, es) ==
    Flatten([i \in 1..Len(secs) |->
        KotlinSectionEnum(SortedByTitle(secs)[i],
                          SectionEntries(es, SortedByTitle(secs)[i].key)).test_cases])

\* the operations that can raise in the helper's loop over sorted_sections
SwiftHelperOps(secs, es) ==
    UNION {SwiftSectionOps(SectionEntries(es, secs[i].key)) : i \in 1..Len(secs)}

KotlinHelperOps(secs, es) ==
    UNION {KotlinSectionOps(SectionEntries(es, secs[i].key)) : i \in 1..Len(secs)}

-----------------------------------------------------------------------------
(* The enum generators: a header with the time and the number of entries, *)
(* the enum of every section record in title order, the closing brace.    *)

\* the text of the first section alone
SwiftEnumsFirstSection(secs, es) ==
    IF secs = <<>> THEN <<>>
    ELSE SwiftSectionEnum(SortedByTitle(secs)[1],
                          SectionEntries(es, SortedByTitle(secs)[1].key)).enum_code

\* the texts added by the loop over sorted_sections
SwiftEnums(secs, es) ==
    Flatten([i \in 1..Len(secs) |->
        SwiftSectionEnum(SortedByTitle(secs)[i],
                         SectionEntries(es, SortedByTitle(secs)[i].key)).enum_code])

KotlinEnums(secs, es) ==
    Flatten([i \in 1..Len(secs) |->
        KotlinSectionEnum(SortedByTitle(secs)[i],
                          SectionEntries(es, SortedByTitle(secs)[i].key)).enum_code])

generate_swift_enum(timestamp, secs, es) ==
    <<[kind |-> "header", timestamp |-> timestamp, total |-> Len(es)],
      [kind |-> "Localizations"]>>
    \o SwiftEnums(secs, es)
    \o <<[kind |-> "end_Localizations"]>>

generate_kotlin_enum(timestamp, secs, es) ==
    <<[kind |-> "header", timestamp |-> timestamp, total |-> Len(es)],
      [kind |-> "LocalizationKey"],
      [kind |-> "Localizations"]>>
    \o KotlinEnums(secs, es)
    \o <<[kind |-> "end_Localizations"]>>

-----------------------------------------------------------------------------
(* The pagination of the content client (src/services/graph_service.py):  *)
(* get_all_localization_entries asks for pages of limit entries until a   *)
(* page is empty or short or the reported total is reached.  The entries  *)
(* of the server are numbered 1, 2, ... in the server's order.             *)

limit == 1000

\* the items of the answer to (limit, skip) of a server that holds n entries
Page(offset, n) ==
    [i \in 1..(IF n - offset >= limit THEN limit
               ELSE IF n - offset > 0 THEN n - offset ELSE 0) |-> offset + i]

\* the loop ending after any page that is not longer than limit
LoopEndsAfterFirstPage(items, fetched, reported) ==
    Len(items) <= limit \/ Len(fetched) >= reported

\* len(items) < limit or len(all_entries) >= total
LoopEnds(items, fetched, reported) ==
    Len(items) < limit \/ Len(fetched) >= reported

-----------------------------------------------------------------------------
(* The JSON exporter (src/services/json_exporter.py) over the entries of  *)
(* the GraphQL client: flat records whose key, value, value_fr and        *)
(* section are a str or None.  localizations, a dict in insertion order,  *)
(* is the sequence of its items.  The branches for the nested format of   *)
(* the REST client do not apply to these records.                          *)

\* s.strip()
RECURSIVE Strip(_)
Strip(s) ==
    IF s = <<>> THEN <<>>
    ELSE IF IsSpace(s[1]) THEN Strip(Tail(s))
    ELSE IF IsSpace(s[Len(s)]) THEN Strip(SubSeq(s, 1, Len(s) - 1))
    ELSE s

\* x and x.strip(), as a test
NotBlank(x) == Truthy(x) /\ Truthy(Strip(x))

\* the value chosen with the French value taken whenever it is not empty
SelectedValueUnstripped(entry, loc) ==
    IF loc = <<"f", "r">> /\ Truthy(entry.value_fr) THEN entry.value_fr
    ELSE IF entry.value # None /\ Truthy(Strip(entry.value)) THEN entry.value
    ELSE None

\* value after lines 39-87 for an entry of the flat format
SelectedValue(entry, loc) ==
    IF loc = <<"f", "r">> /\ NotBlank(entry.value_fr) THEN entry.value_fr
    ELSE IF entry.value # None /\ Truthy(Strip(entry.value)) THEN entry.value
    ELSE None

\* key.startswith(prefix)
StartsWith(key, prefix) ==
    Len(key) >= Len(prefix) /\ SubSeq(key, 1, Len(prefix)) = prefix

\* final_key of lines 92-95
FinalKey(key, section_key) ==
    IF StartsWith(key, section_key \o <<".">>) THEN key
    ELSE section_key \o <<".">> \o key

\* d[k] = v on a dict in insertion order
SetItem(d, k, v) ==
    IF \E i \in 1..Len(d) : d[i].key = k
    THEN [i \in 1..Len(d) |-> IF d[i].key = k THEN [key |-> k, value |-> v] ELSE d[i]]
    ELSE Append(d, [key |-> k, value |-> v])

\* the entries of the section: line 24
JsonEntries(es, section_key) == SelectSeq(es, LAMBDA e : e.section = section_key)

\* localizations after the loop of lines 35-97 over es
RECURSIVE CollectLocalizations(_, _, _)
CollectLocalizations(es, section_key, loc) ==
    IF es = <<>> THEN <<>>
    ELSE LET before == CollectLocalizations(SubSeq(es, 1, Len(es) - 1), section_key, loc)
             entry == es[Len(es)]
         IN  IF Truthy(entry.key) /\ Truthy(SelectedValue(entry, loc))
             THEN SetItem(before, FinalKey(entry.key, section_key),
                          SelectedValue(entry, loc))
             ELSE before

\* f"{actual_section_key}_{locale}.json"
JsonFilename(section_key, loc) ==
    section_key \o <<"_">> \o loc \o <<".", "j", "s", "o", "n">>

-----------------------------------------------------------------------------
(* The export cache of the controller (src/controllers/                    *)
(* export_controller.py).  A cache key stands for its MD5 digest.  An      *)
(* entry of the cache directory is the pair of the cached file and its     *)
(* metadata sidecar; a ZIP is the sequence of the names of its JSON files  *)
(* with the total_files of its manifest.  Times are seconds; a datetime    *)
(* is naive or carries a timezone.                                         *)

OneHour == 3600

CacheKeys == {"locale_zip_en", "locale_zip_fr", "all_locales_zip"}

NoCacheEntry ==
    [file |-> "absent", names |-> <<>>, metadata |-> "absent", created_at |-> 0]

NoDate == [form |-> "none", at |-> 0]

NoRequest == [handler |-> "none", cache_key |-> "none", last_updated |-> NoDate]

NoResponse == [status |-> "none", names |-> <<>>, total_files |-> 0]

\* locale if locale in ['en', 'fr'] else 'en'
EffectiveLocale(loc) ==
    IF loc \in {<<"e", "n">>, <<"f", "r">>} THEN loc ELSE <<"e", "n">>

\* self._get_cache_key("locale_zip", effective_locale)
LocaleCacheKey(loc) ==
    IF loc = <<"f", "r">> THEN "locale_zip_fr" ELSE "locale_zip_en"

\* last_updated_dt of lines 271-278: a missing or malformed parameter is
\* ignored
ParseLastUpdated(parameter) ==
    IF parameter.form \in {"naive", "aware"} THEN parameter ELSE NoDate

\* _is_cache_valid: "True", "False", or the exception that leaves it.
\* datetime.now() and the created_at it wrote are naive; comparing a naive
\* with an aware datetime raises TypeError, which line 64 does not catch.
IsCacheValid(entry, last_updated, now) ==
    IF entry.file = "absent" \/ entry.metadata = "absent" THEN "False"
    ELSE IF entry.metadata = "corrupt" THEN "False"
    ELSE IF last_updated.form = "aware" THEN "TypeError"
    ELSE IF last_updated.form = "naive"
         THEN IF entry.created_at > last_updated.at THEN "True" ELSE "False"
    ELSE IF now - entry.created_at < OneHour THEN "True" ELSE "False"

\* the cache entry after _save_to_cache
SaveToCache(names, now) ==
    [file |-> "zip", names |-> names, metadata |-> "json", created_at |-> now]

\* the (section, locale) pairs in the order of the loops of lines 320 and 461
RECURSIVE SectionLocales(_, _)
SectionLocales(secs, locs) ==
    IF secs = <<>> THEN <<>>
    ELSE [i \in 1..Len(locs) |-> [section_key |-> secs[1].key, locale |-> locs[i]]]
         \o SectionLocales(Tail(secs), locs)

\* has_content of lines 331-338
HasContent(section_entries, loc) ==
    \E i \in 1..Len(section_entries) :
        \/ loc = <<"e", "n">> /\ Truthy(section_entries[i].value)
        \/ loc = <<"f", "r">> /\ Truthy(section_entries[i].value_fr)

\* the (section, locale) pairs for which generate_json is called
Exports(secs, es, locs) ==
    SelectSeq(SectionLocales(secs, locs),
              LAMBDA x : HasContent(SectionEntries(es, x.section_key), x.locale))

\* the names of the files of the ZIP: a section whose generate_json
\* raises is passed over (lines 351-353)
ZipNames(secs, es, locs, outage) ==
    LET written == SelectSeq(Exports(secs, es, locs), LAMBDA x : x.section_key # outage)
    IN  [i \in 1..Len(written) |-> JsonFilename(written[i].section_key, written[i].locale)]

\* the upstream calls that raised while the ZIP was generated
FailedCalls(secs, es, locs, outage) ==
    IF outage = <<"g", "e", "t", "_", "s", "e", "c", "t", "i", "o", "n", "s">>
    THEN <<outage>>
    ELSE IF outage = <<"g", "e", "t", "_", "a", "l", "l">> THEN <<outage>>
    ELSE LET lost == SelectSeq(Exports(secs, es, locs), LAMBDA x : x.section_key = outage)
         IN  [i \in 1..Len(lost) |-> JsonFilename(lost[i].section_key, lost[i].locale)]

-----------------------------------------------------------------------------
(* Inputs.                                                                 *)

RECURSIVE StringsUpTo(_, _)
StringsUpTo(chars, n) ==
    IF n = 0 THEN {<<>>}
    ELSE LET shorter == StringsUpTo(chars, n - 1)
         IN  shorter \cup {Append(s, c) : s \in {t \in shorter : Len(t) = n - 1}, c \in chars}

KeyChars == {"i", "n", "I", "N", "1", "_", ".", "-", " ", "!", "U+00E9"}

SampleKeys ==
    { <<"N", "H", "L", "L", "e", "a", "d", "e", "r", "s">>,
      <<"c", "a", "s", "e">>,
      <<"l", "e", "t">>,
      <<"i", "s">>,
      <<"h", "o", "m", "e", ".", "t", "i", "t", "l", "e">>,
      <<"H", "o", "m", "e">>,
      <<"\t", "a", "b">> }

Keys == StringsUpTo(KeyChars, MaxKeyLen) \cup SampleKeys

ValueChars == {"%", "@", "d", "f", "x"}

SampleValues ==
    { <<"%", "@", " ", "a", "n", "d", " ", "%", "d">>,
      <<"%", "d", " ", "t", "h", "e", "n", " ", "%", "@">>,
      <<"n", "o", " ", "m", "a", "r", "k", "e", "r", "s", " ", "h", "e", "r", "e">>,
      <<"1", "0", "0", "%", " ", "%", "%", "d">> }

Values == StringsUpTo(ValueChars, MaxValLen) \cup SampleValues

RECURSIVE SeqsUpTo(_, _)
SeqsUpTo(S, n) ==
    IF n = 0 THEN {<<>>}
    ELSE LET shorter == SeqsUpTo(S, n - 1)
         IN  shorter \cup {Append(s, x) : s \in {t \in shorter : Len(t) = n - 1}, x \in S}

EmitKeys == {<<>>, <<"a">>, <<"A">>, <<"x", ".", "a">>, <<"i", "n">>}
EmitValues == {<<>>, <<"%", "@">>, <<"%", "d", " ", "%", "%", "@">>}
EmitEntries == [key : EmitKeys, value : EmitValues]
EntryLists == SeqsUpTo(EmitEntries, MaxEntries)
EmitSections ==
    { [title |-> <<"H", "o", "m", "e">>, key |-> <<"h", "o", "m", "e">>],
      [title |-> <<"n", "h", "l", " ", "s", "t", "a", "t", "s">>, key |-> <<"n", "h", "l">>] }

\* The inventories of the testing helpers: some lists of sections with the
\* lists over a pool of entries, and the inventories of many sections with
\* the same cases each.
Home == [title |-> <<"H", "o", "m", "e">>, key |-> <<"h", "o", "m", "e">>]
LowerHome == [title |-> <<"h", "o", "m", "e">>, key |-> <<"h", "2">>]
Accented == [title |-> <<"A", "U+00E9", "\t">>, key |-> <<"a">>]

HelperSectionLists ==
    { <<>>, <<Home>>, <<Home, Accented>>, <<LowerHome, Home>>, <<Home, LowerHome>>,
      <<LowerHome, Accented, Home>> }

HelperEntries ==
    { [section |-> <<"h", "o", "m", "e">>, key |-> <<"b">>, value |-> <<"%", "@", " ", "%", "d">>],
      [section |-> <<"h", "o", "m", "e">>, key |-> <<".">>, value |-> <<>>],
      [section |-> <<"h", "2">>, key |-> <<"U+00E9", "\t">>, value |-> <<"%">>],
      [section |-> <<"a">>, key |-> <<"x", ".", "1">>, value |-> <<"%", "d">>],
      [section |-> <<>>, key |-> <<"a">>, value |-> <<"%", "@">>],
      [section |-> <<"a">>, key |-> <<>>, value |-> <<"%", "@">>] }

WideSections(count) ==
    [k \in 1..count |-> [title |-> <<"s">> \o IntToStr(k), key |-> <<"k">> \o IntToStr(k)]]

WideEntries(count, cases) ==
    Flatten([k \in 1..count |->
        [l \in 1..cases |->
            [section |-> <<"k">> \o IntToStr(k), key |-> <<Chr(96 + l)>>,
             value |-> IF l = 1 THEN <<"%", "@">> ELSE <<>>]]])

Inventories ==
    [sections : HelperSectionLists,
     all_entries : SeqsUpTo(HelperEntries, MaxEntries)]
    \cup { [sections |-> WideSections(count), all_entries |-> WideEntries(count, cases)]
           : count \in 1..MaxWideSections, cases \in 1..MaxWideCases }

\* The inventories of the enum generators: also a section without a key, two
\* sections of one key, an entry without a section and one of a section
\* that is not listed.
Keyless == [title |-> <<"K">>, key |-> <<>>]
HomeTwin == [title |-> <<"T", "w", "i", "n">>, key |-> <<"h", "o", "m", "e">>]

EnumSectionLists ==
    HelperSectionLists \cup {<<Keyless, Home>>, <<HomeTwin, Home>>}

EnumEntries ==
    HelperEntries
    \cup { [section |-> None, key |-> <<"c">>, value |-> <<"%", "d">>],
           [section |-> <<"z", "z">>, key |-> <<"d">>, value |-> <<>>] }

EnumInventories ==
    [sections : EnumSectionLists, all_entries : SeqsUpTo(EnumEntries, MaxEntries)]

\* The entries of the JSON exporter: those of the section home, with a plain
\* or prefixed key or none and values that are missing, blank or text, and
\* one of another section.
Locales == {<<"e", "n">>, <<"f", "r">>}

JsonEntryPool ==
    [section : {<<"h", "o", "m", "e">>},
     key : {<<"a">>, <<"h", "o", "m", "e", ".", "a">>, <<>>},
     value : {None, <<" ">>, <<"v", " ">>},
     value_fr : {None, <<>>, <<"\t", "U+00A0">>, <<"w">>}]
    \cup {[section |-> <<"x">>, key |-> <<"a">>, value |-> <<"v", " ">>,
            value_fr |-> <<"w">>]}

JsonEntryLists == SeqsUpTo(JsonEntryPool, MaxEntries)

\* The moments at which something happens: around one hour after a cache
\* entry made at 0 or at 1.
Instants == {t \in {0, 1, 3600, 3601, 3602} : t <= MaxClock}

\* the last_updated parameter: missing, malformed, without and with a
\* timezone
LastUpdatedParameters ==
    {NoDate, [form |-> "invalid", at |-> 0], [form |-> "naive", at |-> 0],
     [form |-> "naive", at |-> 3600], [form |-> "aware", at |-> 0]}

Cart == [title |-> <<"C", "a", "r", "t">>, key |-> <<"c", "a", "r", "t">>]

\* what the upstream holds: no entry, an entry of Home in both languages,
\* and with it an entry of Cart in English only
UpstreamEntryLists ==
    {<<>>,
     <<[section |-> Home.key, key |-> <<"a">>, value |-> <<"v">>, value_fr |-> <<"w">>]>>,
     <<[section |-> Home.key, key |-> <<"a">>, value |-> <<"v">>, value_fr |-> <<"w">>],
       [section |-> Cart.key, key |-> <<"b">>, value |-> <<"v">>, value_fr |-> None]>>}

\* the upstream call that fails during a request: none, get_sections,
\* get_all_localization_entries of the controller, or the fetches of
\* generate_json for the section home
Outages ==
    {<<>>, <<"g", "e", "t", "_", "s", "e", "c", "t", "i", "o", "n", "s">>,
     <<"g", "e", "t", "_", "a", "l", "l">>, Home.key}

\* what an interrupted earlier run may have left under a key: nothing, a
\* file without metadata, unreadable metadata, an empty file
LeftOverEntries ==
    {NoCacheEntry,
     [file |-> "zip", names |-> <<>>, metadata |-> "absent", created_at |-> 0],
     [file |-> "zip", names |-> <<>>, metadata |-> "corrupt", created_at |-> 0],
     [file |-> "empty", names |-> <<>>, metadata |-> "json", created_at |-> 0]}

\* datetime.now().isoformat()
Timestamps == {<<"t", "1">>, <<"t", "2">>}

-----------------------------------------------------------------------------
(* The normalizers as operations: one call each, on any key or title.      *)

NoTestingCode == [timestamp |-> <<>>, total |-> 0]

Init ==
    /\ pc = "idle"
    /\ text = <<>>
    /\ name = <<>>
    /\ value = <<>>
    /\ parameters = <<>>
    /\ section = [title |-> <<>>, key |-> <<>>]
    /\ entries = <<>>
    /\ enum_code = <<>>
    /\ test_cases = <<>>
    /\ sections = <<>>
    /\ all_entries = <<>>
    /\ all_test_cases = <<>>
    /\ cases_by_section = <<>>
    /\ helper_code = <<>>
    /\ testing_code = NoTestingCode
    /\ swift_code = <<>>
    /\ kotlin_code = <<>>
    /\ stored = 0
    /\ skip = 0
    /\ total = 0
    /\ locale = <<>>
    /\ actual_section_key = <<>>
    /\ localizations = <<>>
    /\ filename = <<>>
    /\ cache = [cache_key \in CacheKeys |-> NoCacheEntry]
    /\ clock = 0
    /\ request = NoRequest
    /\ response = NoResponse
    /\ failed = <<>>
    /\ raised = "None"

CallToUpperCamelCase ==
    /\ pc = "idle"
    /\ \E t \in Keys :
        /\ pc' = "to_upper_camel_case"
        /\ text' = t
        /\ name' = to_upper_camel_case(t)
        /\ raised' = "None"
        /\ UNCHANGED <<value, parameters, section, entries, enum_code, test_cases>>
        /\ UNCHANGED helper_vars
        /\ UNCHANGED service_vars

CallToCamelCaseKey ==
    /\ pc = "idle"
    /\ \E t \in Keys :
        /\ pc' = "to_camel_case_key"
        /\ text' = t
        /\ name' = to_camel_case_key(t)
        /\ raised' = Raised(to_camel_case_key_ops(t))
        /\ UNCHANGED <<value, parameters, section, entries, enum_code, test_cases>>
        /\ UNCHANGED helper_vars
        /\ UNCHANGED service_vars

CallGenerateCaseName ==
    /\ pc = "idle"
    /\ \E t \in Keys :
        /\ pc' = "generate_case_name"
        /\ text' = t
        /\ name' = generate_case_name(t)
        /\ raised' = Raised(generate_case_name_ops(t))
        /\ UNCHANGED <<value, parameters, section, entries, enum_code, test_cases>>
        /\ UNCHANGED helper_vars
        /\ UNCHANGED service_vars

CallGenerateKotlinCaseName ==
    /\ pc = "idle"
    /\ \E t \in Keys :
        /\ pc' = "generate_kotlin_case_name"
        /\ text' = t
        /\ name' = generate_kotlin_case_name(t)
        /\ raised' = Raised(generate_kotlin_case_name_ops(t))
        /\ UNCHANGED <<value, parameters, section, entries, enum_code, test_cases>>
        /\ UNCHANGED helper_vars
        /\ UNCHANGED service_vars

\* The exporter keeps nothing between calls: a finished call leaves it as
\* constructed, but for the cache directory and the time.  A call inside its
\* loop has not finished.
Return ==
    /\ pc \notin {"idle", "while True"}
    /\ pc' = "idle"
    /\ text' = <<>>
    /\ name' = <<>>
    /\ value' = <<>>
    /\ parameters' = <<>>
    /\ section' = [title |-> <<>>, key |-> <<>>]
    /\ entries' = <<>>
    /\ enum_code' = <<>>
    /\ test_cases' = <<>>
    /\ sections' = <<>>
    /\ all_entries' = <<>>
    /\ all_test_cases' = <<>>
    /\ cases_by_section' = <<>>
    /\ helper_code' = <<>>
    /\ testing_code' = NoTestingCode
    /\ swift_code' = <<>>
    /\ kotlin_code' = <<>>
    /\ stored' = 0
    /\ skip' = 0
    /\ total' = 0
    /\ locale' = <<>>
    /\ actual_section_key' = <<>>
    /\ localizations' = <<>>
    /\ filename' = <<>>
    /\ request' = NoRequest
    /\ response' = NoResponse
    /\ failed' = <<>>
    /\ UNCHANGED <<cache, clock>>
    /\ raised' = "None"

NextNames ==
    \/ CallToUpperCamelCase
    \/ CallToCamelCaseKey
    \/ CallGenerateCaseName
    \/ CallGenerateKotlinCaseName
    \/ Return

SpecNames == Init /\ [][NextNames]_vars

-----------------------------------------------------------------------------
(* The extractors as operations.                                           *)

CallExtractSubstitutionParameters ==
    /\ pc = "idle"
    /\ \E v \in Values :
        /\ pc' = "extract_substitution_parameters"
        /\ value' = v
        /\ parameters' = extract_substitution_parameters(v)
        /\ raised' = Raised(extract_substitution_parameters_ops(v))
        /\ UNCHANGED <<text, name, section, entries, enum_code, test_cases>>
        /\ UNCHANGED helper_vars
        /\ UNCHANGED service_vars

CallExtractKotlinParameters ==
    /\ pc = "idle"
    /\ \E v \in Values :
        /\ pc' = "extract_kotlin_parameters"
        /\ value' = v
        /\ parameters' = extract_kotlin_parameters(v)
        /\ raised' = Raised(extract_kotlin_parameters_ops(v))
        /\ UNCHANGED <<text, name, section, entries, enum_code, test_cases>>
        /\ UNCHANGED helper_vars
        /\ UNCHANGED service_vars

NextParams ==
    \/ CallExtractSubstitutionParameters
    \/ CallExtractKotlinParameters
    \/ Return

SpecParams == Init /\ [][NextParams]_vars

-----------------------------------------------------------------------------
(* The section emitters as operations.                                     *)

CallSwiftSectionEnum ==
    /\ pc = "idle"
    /\ \E sec \in EmitSections, es \in EntryLists :
        /\ pc' = "generate_section_enum_from_entries_with_test_cases"
        /\ section' = sec
        /\ entries' = es
        /\ enum_code' = SwiftSectionEnum(sec, es).enum_code
        /\ test_cases' = SwiftSectionEnum(sec, es).test_cases
        /\ raised' = Raised(SwiftSectionOps(es))
        /\ UNCHANGED <<text, name, value, parameters>>
        /\ UNCHANGED helper_vars
        /\ UNCHANGED service_vars

CallKotlinSectionEnum ==
    /\ pc = "idle"
    /\ \E sec \in EmitSections, es \in EntryLists :
        /\ pc' = "generate_kotlin_section_enum_from_entries_with_test_cases"
        /\ section' = sec
        /\ entries' = es
        /\ enum_code' = KotlinSectionEnum(sec, es).enum_code
        /\ test_cases' = KotlinSectionEnum(sec, es).test_cases
        /\ raised' = Raised(KotlinSectionOps(es))
        /\ UNCHANGED <<text, name, value, parameters>>
        /\ UNCHANGED helper_vars
        /\ UNCHANGED service_vars

NextEmit ==
    \/ CallSwiftSectionEnum
    \/ CallKotlinSectionEnum
    \/ Return

SpecEmit == Init /\ [][NextEmit]_vars

-----------------------------------------------------------------------------
(* The testing helpers as operations.                                      *)

CallGenerateSwiftTestingHelper ==
    /\ pc = "idle"
    /\ \E inv \in Inventories, now \in Timestamps :
        /\ pc' = "generate_swift_testing_helper"
        /\ sections' = inv.sections
        /\ all_entries' = inv.all_entries
        /\ all_test_cases' = SwiftAllTestCases(inv.sections, inv.all_entries)
        /\ cases_by_section' = GroupBySection(all_test_cases')
        /\ helper_code' = generate_consistent_testing_helper(cases_by_section')
        /\ testing_code' = [timestamp |-> now, total |-> Len(all_test_cases')]
        /\ raised' = Raised(SwiftHelperOps(inv.sections, inv.all_entries)
                            \cup ConsistentOps(cases_by_section'))
        /\ UNCHANGED call_vars
        /\ UNCHANGED service_vars

CallGenerateKotlinTestingHelper ==
    /\ pc = "idle"
    /\ \E inv \in Inventories, now \in Timestamps :
        /\ pc' = "generate_kotlin_testing_helper"
        /\ sections' = inv.sections
        /\ all_entries' = inv.all_entries
        /\ all_test_cases' = KotlinAllTestCases(inv.sections, inv.all_entries)
        /\ cases_by_section' = GroupBySection(all_test_cases')
        /\ helper_code' = generate_kotlin_consistent_testing_helper(cases_by_section')
        /\ testing_code' = [timestamp |-> now, total |-> Len(all_test_cases')]
        /\ raised' = Raised(KotlinHelperOps(inv.sections, inv.all_entries)
                            \cup ConsistentOps(cases_by_section'))
        /\ UNCHANGED call_vars
        /\ UNCHANGED service_vars

NextHelper ==
    \/ CallGenerateSwiftTestingHelper
    \/ CallGenerateKotlinTestingHelper
    \/ Return

SpecHelper == Init /\ [][NextHelper]_vars

-----------------------------------------------------------------------------
(* The enum generators as operations.                                      *)

CallGenerateSwiftEnum ==
    /\ pc = "idle"
    /\ \E inv \in EnumInventories, now \in Timestamps :
        /\ pc' = "generate_swift_enum"
        /\ sections' = inv.sections
        /\ all_entries' = inv.all_entries
        /\ swift_code' = generate_swift_enum(now, inv.sections, inv.all_entries)
        /\ raised' = Raised(SwiftHelperOps(inv.sections, inv.all_entries))
        /\ UNCHANGED <<all_test_cases, cases_by_section, helper_code, testing_code,
                       kotlin_code>>
        /\ UNCHANGED call_vars
        /\ UNCHANGED site_vars

CallGenerateKotlinEnum ==
    /\ pc = "idle"
    /\ \E inv \in EnumInventories, now \in Timestamps :
        /\ pc' = "generate_kotlin_enum"
        /\ sections' = inv.sections
        /\ all_entries' = inv.all_entries
        /\ kotlin_code' = generate_kotlin_enum(now, inv.sections, inv.all_entries)
        /\ raised' = Raised(KotlinHelperOps(inv.sections, inv.all_entries))
        /\ UNCHANGED <<all_test_cases, cases_by_section, helper_code, testing_code,
                       swift_code>>
        /\ UNCHANGED call_vars
        /\ UNCHANGED site_vars

NextEnum ==
    \/ CallGenerateSwiftEnum
    \/ CallGenerateKotlinEnum
    \/ Return

SpecEnum == Init /\ [][NextEnum]_vars

-----------------------------------------------------------------------------
(* The pagination as operations: the call, then one round of the loop per *)
(* step, the last one returning.                                           *)

CallGetAllLocalizationEntries ==
    /\ pc = "idle"
    /\ \E n \in 0..MaxStored :
        /\ pc' = "while True"
        /\ stored' = n
        /\ all_entries' = <<>>
        /\ skip' = 0
        /\ total' = 0
        /\ UNCHANGED <<sections, all_test_cases, cases_by_section, helper_code,
                       testing_code, raised>>
        /\ UNCHANGED <<call_vars, enum_vars, json_vars, cache_vars>>

\* one round: the request, then the tests of lines 201 and 207
FetchPage ==
    /\ pc = "while True"
    /\ total' = stored
    /\ IF Page(skip, stored) = <<>>
       THEN /\ pc' = "get_all_localization_entries"
            /\ UNCHANGED <<all_entries, skip>>
       ELSE /\ all_entries' = all_entries \o Page(skip, stored)
            /\ IF LoopEnds(Page(skip, stored), all_entries', total')
               THEN /\ pc' = "get_all_localization_entries"
                    /\ UNCHANGED skip
               ELSE /\ pc' = "while True"
                    /\ skip' = skip + limit
    /\ UNCHANGED <<stored, sections, all_test_cases, cases_by_section, helper_code,
                   testing_code, raised>>
    /\ UNCHANGED <<call_vars, enum_vars, json_vars, cache_vars>>

NextPaging ==
    \/ CallGetAllLocalizationEntries
    \/ FetchPage
    \/ Return

\* the event loop runs a started call on: a round that can be taken is taken
SpecPaging == Init /\ [][NextPaging]_vars /\ WF_vars(FetchPage)

-----------------------------------------------------------------------------
(* The JSON exporter as an operation.                                      *)

CallGenerateJson ==
    /\ pc = "idle"
    /\ \E section_key \in {<<"h", "o", "m", "e">>, <<"x">>}, es \in JsonEntryLists,
          loc \in Locales :
        /\ pc' = "generate_json"
        /\ actual_section_key' = section_key
        /\ locale' = loc
        /\ all_entries' = es
        /\ entries' = JsonEntries(es, section_key)
        /\ localizations' = CollectLocalizations(entries', section_key, loc)
        /\ filename' = JsonFilename(section_key, loc)
        /\ UNCHANGED <<text, name, value, parameters, section, enum_code, test_cases>>
        /\ UNCHANGED <<sections, all_test_cases, cases_by_section, helper_code,
                       testing_code, raised>>
        /\ UNCHANGED <<enum_vars, paging_vars, cache_vars>>

NextJson ==
    \/ CallGenerateJson
    \/ Return

SpecJson == Init /\ [][NextJson]_vars

-----------------------------------------------------------------------------
(* The downloads of the export controller as operations.                   *)

\* The body shared by download_all_json and download_all_json_single_zip,
\* served at once: the cache check, and the generation when the cache does
\* not answer.
Download(handler, cache_key, locs, parameter, es, outage) ==
    /\ pc' = handler
    /\ request' = [handler |-> handler, cache_key |-> cache_key,
                   last_updated |-> ParseLastUpdated(parameter)]
    /\ IF IsCacheValid(cache[cache_key], ParseLastUpdated(parameter), clock) = "TypeError"
       THEN /\ raised' = "TypeError"
            /\ response' = NoResponse
            /\ failed' = <<>>
            /\ UNCHANGED cache
       ELSE IF /\ IsCacheValid(cache[cache_key], ParseLastUpdated(parameter), clock) = "True"
               /\ cache[cache_key].file = "zip"
       THEN /\ response' = [status |-> "HIT", names |-> cache[cache_key].names,
                            total_files |-> Len(cache[cache_key].names)]
            /\ failed' = <<>>
            /\ UNCHANGED <<cache, raised>>
       ELSE /\ failed' = FailedCalls(<<Home, Cart>>, es, locs, outage)
            /\ IF outage \in {<<"g", "e", "t", "_", "s", "e", "c", "t", "i", "o", "n", "s">>,
                              <<"g", "e", "t", "_", "a", "l", "l">>}
               THEN /\ response' = [status |-> "error", names |-> <<>>, total_files |-> 0]
                    /\ UNCHANGED <<cache, raised>>
               ELSE /\ response' = [status |-> "MISS",
                                    names |-> ZipNames(<<Home, Cart>>, es, locs, outage),
                                    total_files |-> Len(ZipNames(<<Home, Cart>>, es, locs, outage))]
                    /\ cache' = [cache EXCEPT ![cache_key] = SaveToCache(response'.names, clock)]
                    /\ UNCHANGED raised
    /\ UNCHANGED clock
    /\ UNCHANGED <<call_vars, helper_vars, enum_vars, paging_vars, json_vars>>

DownloadAllJson ==
    /\ pc = "idle"
    /\ \E loc \in {<<"e", "n">>, <<"f", "r">>, <<"d", "e">>},
          parameter \in LastUpdatedParameters, es \in UpstreamEntryLists, outage \in Outages :
        Download("download_all_json", LocaleCacheKey(EffectiveLocale(loc)),
                 <<EffectiveLocale(loc)>>, parameter, es, outage)

DownloadAllJsonSingleZip ==
    /\ pc = "idle"
    /\ \E parameter \in LastUpdatedParameters, es \in UpstreamEntryLists, outage \in Outages :
        Download("download_all_json_single_zip", "all_locales_zip",
                 <<<<"e", "n">>, <<"f", "r">>>>, parameter, es, outage)

\* time passes between two requests
Wait ==
    /\ pc = "idle"
    /\ \E t \in Instants :
        /\ t > clock
        /\ clock' = t
    /\ UNCHANGED <<pc, cache, request, response, failed, raised>>
    /\ UNCHANGED <<call_vars, helper_vars, enum_vars, paging_vars, json_vars>>

\* the controller starts over the cache directory that earlier runs left
InitCache ==
    /\ pc = "idle"
    /\ text = <<>>
    /\ name = <<>>
    /\ value = <<>>
    /\ parameters = <<>>
    /\ section = [title |-> <<>>, key |-> <<>>]
    /\ entries = <<>>
    /\ enum_code = <<>>
    /\ test_cases = <<>>
    /\ sections = <<>>
    /\ all_entries = <<>>
    /\ all_test_cases = <<>>
    /\ cases_by_section = <<>>
    /\ helper_code = <<>>
    /\ testing_code = NoTestingCode
    /\ swift_code = <<>>
    /\ kotlin_code = <<>>
    /\ stored = 0
    /\ skip = 0
    /\ total = 0
    /\ locale = <<>>
    /\ actual_section_key = <<>>
    /\ localizations = <<>>
    /\ filename = <<>>
    /\ \E left \in LeftOverEntries : cache = [cache_key \in CacheKeys |-> left]
    /\ clock = 0
    /\ request = NoRequest
    /\ response = NoResponse
    /\ failed = <<>>
    /\ raised = "None"

NextCache ==
    \/ DownloadAllJson
    \/ DownloadAllJsonSingleZip
    \/ Wait
    \/ Return

SpecCache == InitCache /\ [][NextCache]_vars

-----------------------------------------------------------------------------
(* Properties of the normalizers and the extractor.                        *)

Unknown == <<"u", "n", "k", "n", "o", "w", "n">>

IsWrapped(n) == Len(n) >= 2 /\ n[1] = Backtick /\ n[Len(n)] = Backtick
Unwrapped(n) == IF IsWrapped(n) THEN SubSeq(n, 2, Len(n) - 1) ELSE n
AllAlnum(s) == \A i \in 1..Len(s) : IsAlnum(s[i])
NoAlnum(s) == \A i \in 1..Len(s) : ~IsAlnum(s[i])
KeyPrefix == <<"K", "E", "Y", "_">>
HasKeyPrefix(s) == Len(s) > Len(KeyPrefix) /\ SubSeq(s, 1, Len(KeyPrefix)) = KeyPrefix

\* The types of the markers of v, by position: one for every i such that
\* v[i] is '%' and v[i+1] is '@' or 'd'.
MarkerTypes(v) ==
    Flatten([i \in 1..Len(v) |->
                IF v[i] = "%" /\ i < Len(v) /\ v[i + 1] = "@" THEN <<StringType>>
                ELSE IF v[i] = "%" /\ i < Len(v) /\ v[i + 1] = "d" THEN <<IntType>>
                ELSE <<>>])

\* C1: extract_substitution_parameters returns, in order of appearance, one
\* type per occurrence of '%@' (String) and '%d' (Int) in the value and
\* nothing else; a '%' followed by another character adds nothing and hides
\* no marker that starts at the next character.
C1_MarkersInOrder ==
    pc = "extract_substitution_parameters"
        => parameters = Join(MarkerTypes(value), CommaSpace)

C1_Witness ==
    /\ pc = "extract_substitution_parameters"
    /\ value = <<"%", "%", "d">>
    /\ parameters = IntType

\* C2: for a non-empty key the Swift and the Kotlin case name are non-empty,
\* hold only ASCII letters and digits (Kotlin: and the '_' of a leading
\* 'KEY_'), do not start with a digit, and are wrapped in at most one pair of
\* backticks.
C2_ValidIdentifier ==
    /\ (pc = "generate_case_name" /\ text # <<>>)
          => LET core == Unwrapped(name)
             IN  core # <<>> /\ AllAlnum(core) /\ ~IsDigit(core[1])
    /\ (pc = "generate_kotlin_case_name" /\ text # <<>>)
          => LET core == Unwrapped(name)
             IN  /\ core # <<>>
                 /\ ~IsDigit(core[1])
                 /\ \/ AllAlnum(core)
                    \/ HasKeyPrefix(core)
                         /\ AllAlnum(SubSeq(core, Len(KeyPrefix) + 1, Len(core)))

C2_Witness ==
    /\ pc = "generate_kotlin_case_name"
    /\ text = <<"!", "1", "n">>
    /\ name = <<"K", "E", "Y", "_", "1", "N">>

\* C3: a key that is empty or holds no ASCII letter or digit gets the case
\* name 'unknown' (Swift) and 'UNKNOWN' (Kotlin).
C3_UnknownFallback ==
    /\ (pc = "generate_case_name" /\ NoAlnum(text)) => name = Unknown
    /\ (pc = "generate_kotlin_case_name" /\ NoAlnum(text)) => name = Upper(Unknown)

C3_Witness ==
    /\ pc = "generate_case_name"
    /\ text = <<"!", "U+00E9", "-">>
    /\ name = Unknown

\* C4: to_upper_camel_case returns 'Unknown' for every title that is empty or
\* holds no ASCII letter or digit.
C4_UpperCamelFallback ==
    (pc = "to_upper_camel_case" /\ NoAlnum(text)) => name = Capitalize(Unknown)

\* A word of n >= 2 capitals followed by lowercase letters only.
IsAcronymWord(t, n) ==
    /\ n >= 2
    /\ n < Len(t)
    /\ \A i \in 1..n : IsUpper(t[i])
    /\ \A i \in (n + 1)..Len(t) : IsLower(t[i])

\* C5: camelCase normalization splits a run of capitals that a lowercase
\* letter follows only before the last capital: X1..Xn followed by lowercase
\* letters becomes the lowercased X1..X(n-1), then Xn and the lowercase
\* letters ('NHLLeaders' becomes 'nhlLeaders').
C5_AcronymBoundary ==
    pc \in {"to_camel_case_key", "generate_case_name"}
        => \A n \in 2..Len(text) :
              IsAcronymWord(text, n)
                  => name = Lower(SubSeq(text, 1, n - 1)) \o SubSeq(text, n, Len(text))

C5_Witness ==
    /\ pc = "generate_case_name"
    /\ text = <<"N", "H", "L", "L", "e", "a", "d", "e", "r", "s">>
    /\ name = <<"n", "h", "l", "L", "e", "a", "d", "e", "r", "s">>

\* C6: the Swift case name is wrapped in backticks exactly when the
\* normalized name is a Swift keyword, the Kotlin case name exactly when the
\* lowercase form of the normalized name is a Kotlin keyword, and the text
\* between the backticks is the normalized name unchanged.
C6_KeywordEscaping ==
    /\ pc = "generate_case_name"
          => /\ IsWrapped(name) <=> SwiftNormalized(text) \in swift_keywords
             /\ IsWrapped(name) => Unwrapped(name) = SwiftNormalized(text)
    /\ pc = "generate_kotlin_case_name"
          => /\ IsWrapped(name) <=> Lower(KotlinNormalized(text)) \in kotlin_keywords
             /\ IsWrapped(name) => Unwrapped(name) = KotlinNormalized(text)

C6_Witness ==
    /\ pc = "generate_kotlin_case_name"
    /\ text = <<"i", "s">>
    /\ name = <<Backtick, "I", "S", Backtick>>

-----------------------------------------------------------------------------
(* Properties of the section emitters.                                     *)

IsSwiftEmit == pc = "generate_section_enum_from_entries_with_test_cases"
IsKotlinEmit == pc = "generate_kotlin_section_enum_from_entries_with_test_cases"
IsEmit == IsSwiftEmit \/ IsKotlinEmit

Lines(kind) == SelectSeq(enum_code, LAMBDA l : l.kind = kind)
Range(f) == {f[i] : i \in DOMAIN f}
\* the entries that have a key, in the order of the declaration
Keyed == SelectSeq(SortedByKey(entries), LAMBDA e : e.key # <<>>)

\* The declaration an entry is to get: its case name and, as the associated
\* values, the types of the markers of its value (Kotlin: as constructor
\* parameters param1, param2, ...).
ExpectedCase(e) ==
    LET types == MarkerTypes(e.value)
    IN  IF IsSwiftEmit
        THEN [name |-> generate_case_name(e.key),
              parameters |-> Join(types, CommaSpace)]
        ELSE [name |-> generate_kotlin_case_name(e.key),
              parameters |-> Join([i \in 1..Len(types) |-> ConstructorParam(i, types[i])],
                                  CommaSpace)]

Declared(l) == [name |-> l.name, parameters |-> l.parameters]

\* C7: the emitters declare exactly one case per entry that has a non-empty
\* key: entries without a key are skipped, entries whose keys normalize to
\* the same name are all kept, and the associated values of a case are the
\* parameter types extracted from the entry's value.
C7_OneCasePerKeyedEntry ==
    IsEmit =>
        LET cases == Lines("case")
            keyed == {j \in DOMAIN entries : entries[j].key # <<>>}
        IN  /\ Len(cases) = Cardinality(keyed)
            /\ \A c \in {Declared(cases[i]) : i \in DOMAIN cases}
                        \cup {ExpectedCase(entries[j]) : j \in keyed} :
                  Cardinality({i \in DOMAIN cases : Declared(cases[i]) = c})
                      = Cardinality({j \in keyed : ExpectedCase(entries[j]) = c})

C7_Witness ==
    /\ IsSwiftEmit
    /\ entries = <<[key |-> <<"a">>, value |-> <<"%", "@">>], [key |-> <<>>, value |-> <<>>]>>
    /\ Len(Lines("case")) = 1
    /\ Lines("case")[1].parameters = StringType

\* C8: the key lookup has one arm per declared case, in declaration order;
\* the arm returns the entry's key unchanged, dotted prefix included, and the
\* Swift arm of a case with K parameters has K wildcards.
C8_KeyLookup ==
    IsEmit =>
        LET cases == Lines("case")
            arms == Lines("key_arm")
        IN  /\ Len(arms) = Len(cases)
            /\ Len(arms) = Len(Keyed)
            /\ \A i \in DOMAIN arms :
                  /\ arms[i].name = cases[i].name
                  /\ cases[i].name = ExpectedCase(Keyed[i]).name
                  /\ arms[i].returns = Keyed[i].key
                  /\ IsSwiftEmit => arms[i].wildcards = Len(MarkerTypes(Keyed[i].value))

C8_Witness ==
    /\ IsSwiftEmit
    /\ entries = <<[key |-> <<"x", ".", "a">>, value |-> <<"%", "d", " ", "%", "%", "@">>]>>
    /\ Lines("key_arm") = <<[kind |-> "key_arm", name |-> <<"a">>, wildcards |-> 2,
                             returns |-> <<"x", ".", "a">>]>>

\* C9: hasParameters is true for exactly the cases whose value holds a
\* marker, and the parameters accessor returns [param1, ..., paramK] for
\* exactly those cases and nil / null for every other case.
C9_HasParameters ==
    IsEmit =>
        LET cases == Lines("case")
            arms == Lines("parameters_arm")
        IN  \A i \in DOMAIN cases :
                LET K == Len(MarkerTypes(Keyed[i].value))
                    true_for == Range(Lines("hasParameters")[1].cases)
                    own == {a \in DOMAIN arms : arms[a].name = cases[i].name}
                IN  /\ cases[i].name \in true_for <=> K > 0
                    /\ K = 0 => own = {}
                    /\ K > 0 => \E a \in own : arms[a].returns = [j \in 1..K |-> ParamName(j)]

\* C10: a section without an entry that has a key is emitted, in both
\* languages, with nothing but the filename constant in its body.
C10_EmptyBody ==
    (IsEmit /\ Keyed = <<>>)
        => enum_code = <<[kind |-> "enum", name |-> to_upper_camel_case(section.title)],
                         [kind |-> "filename", value |-> section.key],
                         [kind |-> "end"]>>

-----------------------------------------------------------------------------
(* Properties of the testing helpers and the sampler.                      *)

IsSwiftHelper == pc = "generate_swift_testing_helper"
IsKotlinHelper == pc = "generate_kotlin_testing_helper"
IsHelper == IsSwiftHelper \/ IsKotlinHelper

\* the sampled invocations, in the order of the returned text
Invocations == SelectSeq(helper_code, LAMBDA l : l.kind = "invocation")

\* the literal a String parameter in first position gets in sample number n
FirstStringArgument(n) ==
    <<Quote, "T", "e", "s", "t">> \o IntToStr(n) \o <<"P", "a", "r", "a", "m", "1", Quote>>

(* C11: when at least one case exists the sampler returns exactly 300      *)
(* invocations, the n-th being that of index n - 1 (its first argument     *)
(* carries n) and every one a case of the inventory, also when fewer than  *)
(* 300 cases exist; nothing is raised, every group it indexes holds a      *)
(* case; with no case at all it returns the empty text.                    *)
C11_ThreeHundredSamples ==
    IsHelper =>
        LET sampled == Invocations
        IN  /\ raised = "None"
            /\ \A g \in 1..Len(cases_by_section) : cases_by_section[g].cases # <<>>
            /\ IF all_test_cases = <<>>
               THEN helper_code = <<>>
               ELSE /\ Len(sampled) = 300
                    /\ \A n \in 1..300 :
                        /\ \E k \in 1..Len(all_test_cases) :
                            /\ all_test_cases[k].section_name = sampled[n].section_name
                            /\ all_test_cases[k].case_name = sampled[n].case_name
                        /\ sampled[n].params # <<>> =>
                            sampled[n].params[1] \in {FirstStringArgument(n), IntToStr(n)}

\* fewer than 300 cases in two groups or more, and 300 invocations returned
C11_Witness ==
    /\ IsHelper
    /\ Len(cases_by_section) >= 2
    /\ Len(all_test_cases) < 300
    /\ Len(Invocations) = 300
    /\ raised = "None"

(* C12: sample i (from 0) is the case at position (3i + i div 5) mod L of  *)
(* the group at position (7i + i div 3) mod S of the sampler's section     *)
(* list, S the number of groups and L the length of that group, in both    *)
(* samplers.                                                               *)
C12_IndexFormulas ==
    (IsHelper /\ cases_by_section # <<>>) =>
        LET sampled == Invocations
            S == Len(cases_by_section)
        IN  \A i \in 0..299 :
                LET section_cases == cases_by_section[((7 * i + (i \div 3)) % S) + 1].cases
                    L == Len(section_cases)
                    picked == section_cases[((3 * i + (i \div 5)) % L) + 1]
                IN  /\ i + 1 <= Len(sampled)
                    /\ sampled[i + 1].section_name = picked.section_name
                    /\ sampled[i + 1].case_name = picked.case_name

\* eleven groups of two cases: sample 1 comes from the group at position 7
\* and sample 3 is the second case of the first group
C12_Witness ==
    /\ IsHelper
    /\ Len(cases_by_section) = 11
    /\ Len(cases_by_section[1].cases) = 2
    /\ Invocations[2].section_name = cases_by_section[8].section_name
    /\ Invocations[2].section_name # cases_by_section[2].section_name
    /\ Invocations[4].section_name = cases_by_section[1].section_name
    /\ Invocations[4].case_name = cases_by_section[1].cases[2].case_name
    /\ Invocations[4].case_name # cases_by_section[1].cases[1].case_name

\* entry e is emitted by the helper: it has a key and its section is listed
Emitted(e) ==
    /\ e.key # <<>>
    /\ e.section # <<>>
    /\ \E i \in 1..Len(sections) : sections[i].key = e.section

(* C14: whatever strings the keys, values, section keys and titles are     *)
(* (empty, non-ASCII, control characters, a value ending in '%'), a run    *)
(* of a helper, which normalizes every title and key, extracts the         *)
(* parameters of every value, emits every section and samples the cases,   *)
(* returns: no subscript is out of range and no divisor is 0.              *)
C14_NeverRaises == IsHelper => raised = "None"

\* a run over a title with a non-ASCII character and a tab, a key without
\* a letter or digit, a value ending in '%' and an entry without a key
C14_Witness ==
    /\ IsHelper
    /\ raised = "None"
    /\ helper_code # <<>>
    /\ \E i \in 1..Len(sections) : sections[i].title = <<"A", "U+00E9", "\t">>
    /\ \E i \in 1..Len(all_entries) :
        /\ Emitted(all_entries[i])
        /\ all_entries[i].key = <<"U+00E9", "\t">>
        /\ all_entries[i].value = <<"%">>
    /\ \E i \in 1..Len(all_entries) : all_entries[i].key = <<>>

\* the positions in sections of the records with at least one case
WithCases == {i \in 1..Len(sections) : \E k \in 1..Len(all_entries) :
                 /\ Emitted(all_entries[k])
                 /\ all_entries[k].section = sections[i].key}

\* the number of cases of the section record at position i
CaseCount(i) ==
    Cardinality({k \in 1..Len(all_entries) :
                    Emitted(all_entries[k]) /\ all_entries[k].section = sections[i].key})

\* the records the group at position g of cases_by_section can stand for
RecordsOf(g) ==
    {i \in WithCases :
        to_upper_camel_case(sections[i].title) = cases_by_section[g].section_name}

(* C15: the sampler's section list holds one group per section record      *)
(* with at least one case (S is their number), in ascending order of the  *)
(* section titles, and a group lists exactly the cases of its section, in *)
(* declaration order.                                                      *)
C15_OneGroupPerSection ==
    IsHelper =>
        /\ Len(cases_by_section) = Cardinality(WithCases)
        /\ \A g \in 1..Len(cases_by_section) :
            /\ \E i \in RecordsOf(g) : Len(cases_by_section[g].cases) = CaseCount(i)
            /\ cases_by_section[g].cases =
                   SelectSeq(all_test_cases,
                             LAMBDA c : c.section_name = cases_by_section[g].section_name)
        /\ \A g, h \in 1..Len(cases_by_section) :
            g < h => \A i \in RecordsOf(g), j \in RecordsOf(h) :
                         ~StrLess(sections[j].title, sections[i].title)

(* C16: each of the S groups of the sampler's section list, 1 <= S <= 300, *)
(* is the section of at least one of the 300 samples.                      *)
C16_EverySectionSampled ==
    (IsHelper /\ Len(cases_by_section) \in 1..300) =>
        LET sampled == Invocations
        IN  \A g \in 1..Len(cases_by_section) :
                \E n \in 1..Len(sampled) :
                    sampled[n].section_name = cases_by_section[g].section_name

-----------------------------------------------------------------------------
(* Properties of the names, continued.                                     *)

\* the words of a key: the non-empty pieces between its separators, after
\* the removal of the special characters and the marking of the boundaries
Words(t) ==
    LET stripped == StripSpecials(t)
        marked1 == InsertUnderscores(stripped, LowerUpperBoundary(stripped))
        marked2 == InsertUnderscores(marked1, AcronymBoundary(marked1))
    IN  SelectSeq(SplitKey(marked2), LAMBDA w : w # <<>>)

(* C17: the camelCase name of a key with at least one word is its first    *)
(* word in lower case followed by the later words capitalized, so a        *)
(* non-empty name starts with a lowercase letter or a digit, also for a    *)
(* key that begins with a separator.                                       *)
C17_FirstWordLowercase ==
    (pc = "to_camel_case_key" /\ Words(text) # <<>>) =>
        /\ name = Lower(Words(text)[1])
                  \o Flatten([i \in 1..(Len(Words(text)) - 1) |->
                                 Capitalize(Words(text)[i + 1])])
        /\ name # <<>> => (IsLower(name[1]) \/ IsDigit(name[1]))

(* C18: the Kotlin case name is the words of the key (of its last dotted   *)
(* segment) in upper case joined by an underscore, behind the KEY_ prefix  *)
(* when it starts with a digit and between backticks when it is a         *)
(* keyword: the words nhl and leaders give NHL_LEADERS.                    *)
C18_ScreamingSnake ==
    (pc = "generate_kotlin_case_name" /\ Words(CleanKey(text)) # <<>>) =>
        LET words == Words(CleanKey(text))
            snake == Join([i \in 1..Len(words) |-> Upper(words[i])], <<"_">>)
            named == IF IsDigit(snake[1]) THEN <<"K", "E", "Y", "_">> \o snake ELSE snake
        IN  name \in {named, <<Backtick>> \o named \o <<Backtick>>}

-----------------------------------------------------------------------------
(* Properties of the extractors, continued.                                *)

DoubleType == <<"D", "o", "u", "b", "l", "e">>

\* the types returned by the call: the string of the Swift extractor, the
\* second string of the Kotlin one
ReturnedTypes ==
    IF pc = "extract_kotlin_parameters" THEN parameters.param_types ELSE parameters

(* C19: a value that starts with '%f' and holds no other '%' yields        *)
(* exactly one parameter, of type Double.                                  *)
C19_DoubleParameter ==
    (/\ pc \in {"extract_substitution_parameters", "extract_kotlin_parameters"}
     /\ Len(value) >= 2 /\ value[1] = "%" /\ value[2] = "f"
     /\ \A i \in 2..Len(value) : value[i] # "%")
    => ReturnedTypes = DoubleType

-----------------------------------------------------------------------------
(* Properties of the section emitters, continued.                          *)

\* the entries that have a key, in the order of the input
KeyedInput == SelectSeq(entries, LAMBDA e : e.key # <<>>)

\* the place of keyed entry i in a stable ascending order of the keys: after
\* the entries of a smaller key and the earlier entries of the same key
Rank(i) ==
    1 + Cardinality({k \in DOMAIN KeyedInput : StrLess(KeyedInput[k].key, KeyedInput[i].key)})
      + Cardinality({k \in 1..(i - 1) : KeyedInput[k].key = KeyedInput[i].key})

\* the parameter types a test case carries
CaseTypes(c) == IF IsSwiftEmit THEN c.parameters ELSE c.param_types

(* C20: the cases are declared in ascending order of the entries' keys,    *)
(* compared character by character, entries of the same key in their      *)
(* input order; the key-lookup arms and the test cases returned for the    *)
(* sampler follow the same order.                                          *)
C20_SortedStable ==
    IsEmit =>
        LET cases == Lines("case")
            arms == Lines("key_arm")
        IN  /\ Len(cases) = Len(KeyedInput)
            /\ Len(arms) = Len(KeyedInput)
            /\ Len(test_cases) = Len(KeyedInput)
            /\ \A i \in DOMAIN KeyedInput :
                /\ Declared(cases[Rank(i)]) = ExpectedCase(KeyedInput[i])
                /\ arms[Rank(i)].returns = KeyedInput[i].key
                /\ arms[Rank(i)].name = ExpectedCase(KeyedInput[i]).name
                /\ test_cases[Rank(i)].case_name = ExpectedCase(KeyedInput[i]).name
                /\ CaseTypes(test_cases[Rank(i)])
                       = Join(MarkerTypes(KeyedInput[i].value), CommaSpace)
            /\ \A i, j \in DOMAIN arms :
                i < j => ~StrLess(arms[j].returns, arms[i].returns)

\* two entries of the same key, the first with a parameter, declared in
\* their input order
C20_Witness ==
    /\ IsSwiftEmit
    /\ entries = <<[key |-> <<"a">>, value |-> <<"%", "@">>],
                   [key |-> <<"a">>, value |-> <<>>]>>
    /\ Lines("case")[1].parameters = StringType
    /\ Lines("case")[2].parameters = <<>>
    /\ test_cases[1].parameters = StringType

-----------------------------------------------------------------------------
(* Properties of the enum generators.                                      *)

IsSwiftEnum == pc = "generate_swift_enum"
IsKotlinEnum == pc = "generate_kotlin_enum"
IsEnum == IsSwiftEnum \/ IsKotlinEnum

\* the lines of the generated file
Code == IF IsSwiftEnum THEN swift_code ELSE kotlin_code

\* the positions of the lines that open a section enum, in text order
EnumStarts == SelectSeq([i \in 1..Len(Code) |-> i], LAMBDA i : Code[i].kind = "enum")

\* the cases declared by the k-th section enum of the text
BlockCases(k) ==
    LET last == IF k < Len(EnumStarts) THEN EnumStarts[k + 1] - 1 ELSE Len(Code)
    IN  SelectSeq(SubSeq(Code, EnumStarts[k], last), LAMBDA l : l.kind = "case")

\* the declaration an entry is to get in the language of the generated file
ExpectedDeclaration(e) ==
    LET types == MarkerTypes(e.value)
    IN  IF IsSwiftEnum
        THEN [name |-> generate_case_name(e.key),
              parameters |-> Join(types, CommaSpace)]
        ELSE [name |-> generate_kotlin_case_name(e.key),
              parameters |-> Join([i \in 1..Len(types) |-> ConstructorParam(i, types[i])],
                                  CommaSpace)]

\* the positions in all_entries of the entries that belong to a section
\* record: a key, a section that is a non-empty string, equal to the
\* record's key
Contributors(sec) ==
    {j \in 1..Len(all_entries) :
        /\ all_entries[j].key # <<>>
        /\ all_entries[j].section # None
        /\ all_entries[j].section # <<>>
        /\ all_entries[j].section = sec.key}

(* C21: the generated file holds one enum per section record, in ascending *)
(* order of the titles, and the enum of a record declares one case for    *)
(* every entry that has a key and whose section is a non-empty string     *)
(* equal to the record's key, and no other case; entries without a        *)
(* section or of an unlisted section are in no enum and raise nothing.     *)
C21_GroupedBySection ==
    IsEnum =>
        /\ raised = "None"
        /\ Len(EnumStarts) = Len(sections)
        /\ \E p \in Permutations(1..Len(sections)) :
            /\ \A k, l \in 1..Len(sections) :
                  k < l => ~StrLess(sections[p[l]].title, sections[p[k]].title)
            /\ \A k \in 1..Len(sections) :
                  LET cases == BlockCases(k)
                      from == Contributors(sections[p[k]])
                  IN  /\ Code[EnumStarts[k]].name = to_upper_camel_case(sections[p[k]].title)
                      /\ Len(cases) = Cardinality(from)
                      /\ \A c \in {Declared(cases[i]) : i \in DOMAIN cases}
                                  \cup {ExpectedDeclaration(all_entries[j]) : j \in from} :
                            Cardinality({i \in DOMAIN cases : Declared(cases[i]) = c})
                                = Cardinality({j \in from :
                                                  ExpectedDeclaration(all_entries[j]) = c})

\* a section without a key listed before the section Home, an entry without
\* a section and an entry of home: the enum of Home comes first and declares
\* the one case, the enum of the other section is empty
C21_Witness ==
    /\ IsSwiftEnum
    /\ sections = <<Keyless, Home>>
    /\ all_entries = <<[section |-> <<>>, key |-> <<"a">>, value |-> <<"%", "@">>],
                       [section |-> <<"h", "o", "m", "e">>, key |-> <<"b">>,
                        value |-> <<"%", "@", " ", "%", "d">>]>>
    /\ Len(EnumStarts) = 2
    /\ BlockCases(2) = <<>>
    /\ BlockCases(1) = <<[kind |-> "case", name |-> <<"b">>,
                          parameters |-> <<"S", "t", "r", "i", "n", "g", ",", " ",
                                            "I", "n", "t">>]>>

-----------------------------------------------------------------------------
(* Properties of the case names, continued.                                *)

\* the position of the last '.' of t, 0 when there is none
LastDot(t) ==
    IF \E i \in 1..Len(t) : t[i] = "."
    THEN CHOOSE i \in 1..Len(t) : t[i] = "." /\ \A j \in (i + 1)..Len(t) : t[j] # "."
    ELSE 0

\* the text after the last '.' of t, t itself when there is none
LastSegment(t) == SubSeq(t, LastDot(t) + 1, Len(t))

(* C22: when the normalized name (the camelCase form of the key's last     *)
(* dotted segment; for Kotlin in upper case) starts with a digit, the     *)
(* Swift case name is 'key' followed by it and the Kotlin case name       *)
(* 'KEY_' followed by it; a name that starts otherwise is returned        *)
(* without a prefix (between backticks when it is a keyword).             *)
C22_DigitPrefix ==
    /\ pc = "generate_case_name" =>
          LET normalized == to_camel_case_key(LastSegment(text))
          IN  IF normalized # <<>> /\ IsDigit(normalized[1])
              THEN name = <<"k", "e", "y">> \o normalized
              ELSE normalized # <<>> => Unwrapped(name) = normalized
    /\ pc = "generate_kotlin_case_name" =>
          LET normalized == Upper(to_camel_case_key(LastSegment(text)))
          IN  IF normalized # <<>> /\ IsDigit(normalized[1])
              THEN name = <<"K", "E", "Y", "_">> \o normalized
              ELSE normalized # <<>> => Unwrapped(name) = normalized

\* the key '.1n' names the Swift case 'key1n'
C22_Witness ==
    /\ pc = "generate_case_name"
    /\ text = <<".", "1", "n">>
    /\ name = <<"k", "e", "y", "1", "n">>

(* C23: the case name of a key that holds a '.' is the case name of the    *)
(* text after its last '.', whatever stands before it, for both           *)
(* generators.                                                             *)
C23_DottedPrefixDropped ==
    /\ (pc = "generate_case_name" /\ LastDot(text) > 0)
          => name = generate_case_name(LastSegment(text))
    /\ (pc = "generate_kotlin_case_name" /\ LastDot(text) > 0)
          => name = generate_kotlin_case_name(LastSegment(text))

\* the key 'I..n' is named as the key 'n', not as 'I', '.n' or the whole key
C23_Witness ==
    /\ pc = "generate_kotlin_case_name"
    /\ text = <<"I", ".", ".", "n">>
    /\ name = <<"N">>
    /\ generate_kotlin_case_name(<<"n">>) = <<"N">>

-----------------------------------------------------------------------------
(* Properties of the sampler, continued.                                   *)

\* the case of sample i (from 0): the index formulas applied to the groups
PickedCase(i) ==
    LET section_cases ==
            cases_by_section[((7 * i + (i \div 3)) % Len(cases_by_section)) + 1].cases
    IN  section_cases[((3 * i + (i \div 5)) % Len(section_cases)) + 1]

\* the parameter types of a test case, in order
TypesOf(c) ==
    LET declared == IF IsSwiftHelper THEN c.parameters ELSE c.param_types
    IN  IF declared = <<>> THEN <<>> ELSE SplitCommaSpace(declared)

(* C24: sample i (from 0) of a case with K parameters has exactly K        *)
(* arguments, in parameter order: for parameter j (from 0) of type String *)
(* the literal "Test<i+1>Param<j+1>", of type Int the number              *)
(* (i+1)*(j+1); a case without parameters has no argument list.           *)
C24_SampleArguments ==
    (IsHelper /\ cases_by_section # <<>>) =>
        \A i \in 0..299 :
            LET types == TypesOf(PickedCase(i))
                args == Invocations[i + 1].params
            IN  /\ Len(args) = Len(types)
                /\ \A j \in 0..(Len(types) - 1) :
                    /\ types[j + 1] \in {StringType, IntType}
                    /\ types[j + 1] = StringType =>
                          args[j + 1] = <<Quote, "T", "e", "s", "t">> \o IntToStr(i + 1)
                                        \o <<"P", "a", "r", "a", "m">> \o IntToStr(j + 1)
                                        \o <<Quote>>
                    /\ types[j + 1] = IntType =>
                          args[j + 1] = IntToStr((i + 1) * (j + 1))

\* the one case of the inventory has a String and an Int parameter: sample
\* 2 is rendered with "Test3Param1" and 6, sample 299 with 600
C24_Witness ==
    /\ IsSwiftHelper
    /\ Len(all_test_cases) = 1
    /\ all_test_cases[1].parameters
           = <<"S", "t", "r", "i", "n", "g", ",", " ", "I", "n", "t">>
    /\ Invocations[3].params
           = << <<Quote, "T", "e", "s", "t", "3", "P", "a", "r", "a", "m", "1", Quote>>,
                <<"6">> >>
    /\ Invocations[300].params[2] = <<"6", "0", "0">>

\* the section enums the enum generator writes for the inventory of the helper
GeneratedEnums ==
    IF IsSwiftHelper THEN SwiftEnums(sections, all_entries)
    ELSE KotlinEnums(sections, all_entries)

\* the name of the enum that line i of these enums stands in
EnumOfLine(lines, i) ==
    lines[CHOOSE k \in 1..i :
             lines[k].kind = "enum" /\ \A m \in (k + 1)..i : lines[m].kind # "enum"].name

\* the cases these enums declare: the enum's name with the case line
DeclaredCases ==
    LET lines == GeneratedEnums
    IN  {[section_name |-> EnumOfLine(lines, i), case |-> lines[i]] :
            i \in {k \in 1..Len(lines) : lines[k].kind = "case"}}

\* the declared parameters of a case line, one piece per parameter
DeclaredParameters(l) ==
    IF l.parameters = <<>> THEN <<>> ELSE SplitCommaSpace(l.parameters)

IsStringLiteral(a) == Len(a) >= 2 /\ a[1] = Quote /\ a[Len(a)] = Quote
IsInteger(a) == a # <<>> /\ \A i \in 1..Len(a) : IsDigit(a[i])

\* the arguments fit the declared parameters, position by position
Fits(args, declared) ==
    /\ Len(args) = Len(declared)
    /\ \A j \in 1..Len(declared) :
        /\ Contains(declared[j], StringType) => IsStringLiteral(args[j])
        /\ Contains(declared[j], IntType) => IsInteger(args[j])

(* C25: every invocation of the test sample names a section enum that the  *)
(* enum generator writes for the same sections and entries and a case     *)
(* that this enum declares, with as many arguments as the case has        *)
(* parameters: a string literal for a String, an integer for an Int.      *)
C25_SampleRefinesEnums ==
    IsHelper =>
        LET declared == DeclaredCases
            sampled == Invocations
        IN  \A n \in 1..Len(sampled) :
                \E d \in declared :
                    /\ d.section_name = sampled[n].section_name
                    /\ d.case.name = sampled[n].case_name
                    /\ Fits(sampled[n].params, DeclaredParameters(d.case))

\* two sections with a case each: the second sample calls the case B of
\* the enum Home with a string literal and an integer, as the enum declares it
C25_Witness ==
    /\ IsKotlinHelper
    /\ Len(cases_by_section) = 2
    /\ Invocations[2].section_name = <<"H", "o", "m", "e">>
    /\ Invocations[2].case_name = <<"B">>
    /\ Len(Invocations[2].params) = 2
    /\ IsStringLiteral(Invocations[2].params[1])
    /\ Invocations[2].params[2] = <<"4">>
    /\ \E d \in DeclaredCases :
        /\ d.section_name = <<"H", "o", "m", "e">>
        /\ d.case.name = <<"B">>
        /\ Len(DeclaredParameters(d.case)) = 2

-----------------------------------------------------------------------------
(* Properties of the extractors, continued.                                *)

(* C26: the Kotlin extractor finds the types the Swift extractor finds,    *)
(* in the same order (its type list is the string the Swift extractor     *)
(* returns for the same value), and its constructor parameters are        *)
(* 'val param1: T1', ..., 'val paramK: TK' for these types T1..TK.         *)
C26_KotlinMatchesSwift ==
    pc = "extract_kotlin_parameters" =>
        LET swift == extract_substitution_parameters(value)
            types == IF swift = <<>> THEN <<>> ELSE SplitCommaSpace(swift)
        IN  /\ parameters.param_types = swift
            /\ parameters.constructor_params
                   = Join([k \in 1..Len(types) |->
                              <<"v", "a", "l", " ", "p", "a", "r", "a", "m">> \o IntToStr(k)
                                  \o <<":", " ">> \o types[k]],
                          CommaSpace)

\* '%%d%@': the '%' before the marker hides nothing; an Int named param1,
\* then a String named param2
C26_Witness ==
    /\ pc = "extract_kotlin_parameters"
    /\ value = <<"%", "%", "d", "%", "@">>
    /\ extract_substitution_parameters(value)
           = <<"I", "n", "t", ",", " ", "S", "t", "r", "i", "n", "g">>
    /\ parameters.constructor_params
           = <<"v", "a", "l", " ", "p", "a", "r", "a", "m", "1", ":", " ", "I", "n", "t",
               ",", " ",
               "v", "a", "l", " ", "p", "a", "r", "a", "m", "2", ":", " ",
               "S", "t", "r", "i", "n", "g">>

-----------------------------------------------------------------------------
(* Properties of the pagination.                                           *)

\* get_all_localization_entries has returned
Fetched == pc = "get_all_localization_entries"

(* C30: against a server that holds N entries and answers a query         *)
(* (skip, limit = 1000) with the entries skip+1 .. skip+1000 it has and   *)
(* total = N, a started get_all_localization_entries returns, and what it *)
(* returns is the N entries, each once, in the server's order; so for     *)
(* N = 0 and for N a multiple of 1000.                                     *)
C30_AllEntriesOnce ==
    /\ [](Fetched => all_entries = [i \in 1..stored |-> i])
    /\ (pc = "while True") ~> Fetched

\* two full pages, nothing more: the loop ends on the reported total
C30_Witness ==
    /\ Fetched
    /\ stored = 2 * limit
    /\ skip = limit
    /\ Len(all_entries) = 2 * limit
    /\ all_entries[limit + 1] = limit + 1

-----------------------------------------------------------------------------
(* The value selection of the JSON exporter.                               *)

\* None, empty or made of whitespace only
Blank(x) == x = None \/ \A i \in 1..Len(x) : IsSpace(x[i])

\* the value the file is to hold for an entry, None for an entry left out
ExportedValue(e) ==
    IF locale = <<"f", "r">> /\ ~Blank(e.value_fr) THEN e.value_fr
    ELSE IF ~Blank(e.value) THEN e.value
    ELSE None

\* the positions of entries whose key is not empty and that have a value
Exportable == {i \in 1..Len(entries) : entries[i].key # <<>> /\ ExportedValue(entries[i]) # None}

\* the key of the file under which entry i is written
FileKey(i) ==
    IF Len(entries[i].key) > Len(actual_section_key)
       /\ SubSeq(entries[i].key, 1, Len(actual_section_key) + 1) = actual_section_key \o <<".">>
    THEN entries[i].key
    ELSE actual_section_key \o <<".">> \o entries[i].key

\* C29: after generate_json every entry of the section with a non-empty key
\* and a non-blank value for the locale (the French value for 'fr' when it is
\* not blank, else the English value when that is not blank) is in the file
\* under its key with that value, the last entry of a key deciding; entries
\* without such a value add nothing; and no value of the file is empty or
\* whitespace only.
C29_ValueSelection ==
    pc = "generate_json" =>
        /\ \A i \in Exportable :
                \E n \in 1..Len(localizations) :
                    /\ localizations[n].key = FileKey(i)
                    /\ \E j \in Exportable :
                        /\ FileKey(j) = FileKey(i)
                        /\ \A k \in Exportable : FileKey(k) = FileKey(i) => k <= j
                        /\ localizations[n].value = ExportedValue(entries[j])
        /\ \A n \in 1..Len(localizations) :
                /\ \E i \in Exportable : localizations[n].key = FileKey(i)
                /\ ~Blank(localizations[n].value)
                /\ \A m \in 1..Len(localizations) :
                        localizations[m].key = localizations[n].key => m = n

\* a French export in which one entry falls back to its English value since
\* its French value is whitespace only, and another entry is left out
C29_Witness ==
    /\ pc = "generate_json"
    /\ locale = <<"f", "r">>
    /\ Len(entries) = 2
    /\ entries[1].key = <<"a">>
    /\ entries[1].value_fr = <<"\t", "U+00A0">>
    /\ entries[1].value = <<"v", " ">>
    /\ entries[2].key = <<"h", "o", "m", "e", ".", "a">>
    /\ entries[2].value_fr = <<>>
    /\ entries[2].value = <<" ">>
    /\ localizations = <<[key |-> <<"h", "o", "m", "e", ".", "a">>, value |-> <<"v", " ">>]>>

-----------------------------------------------------------------------------
(* The export cache.                                                       *)

\* a step that serves a request of one of the two ZIP downloads
ServesDownload ==
    /\ pc = "idle"
    /\ pc' \in {"download_all_json", "download_all_json_single_zip"}

\* the entry under the key of the request has its file and its metadata
\* and was created less than an hour before the request
FreshEntry(entry) ==
    /\ entry.file # "absent"
    /\ entry.metadata = "json"
    /\ clock - entry.created_at < OneHour

\* C27: a download answers with the cached ZIP (HIT) only when the file and
\* the metadata of its key exist and the entry was created less than 3600
\* seconds before the request; in every other case, whatever last_updated
\* is, and the upstream answering, it answers with a newly generated ZIP
\* (MISS) that replaces the cache entry.
C27_HitOnlyWithinOneHour ==
    [][(ServesDownload /\ failed' = <<>>) =>
        /\ response'.status = "HIT" => FreshEntry(cache[request'.cache_key])
        /\ ~FreshEntry(cache[request'.cache_key]) =>
            /\ response'.status = "MISS"
            /\ cache'[request'.cache_key] = SaveToCache(response'.names, clock)]_vars

\* C28: a download writes its cache entry only after a generation in which
\* no upstream call failed: when a call fails, the file and the metadata of
\* the key stay as they were before the request.
C28_FailureLeavesCache ==
    [][ServesDownload =>
        /\ failed' # <<>> => cache'[request'.cache_key] = cache[request'.cache_key]
        /\ cache'[request'.cache_key] # cache[request'.cache_key] =>
            /\ response'.status = "MISS"
            /\ failed' = <<>>]_vars

====
